---------------------------- MODULE Spec2Model ----------------------------
(***************************************************************************)
(* A model of CodeBlur (src/codeblur/codeblur.py): the mapping table, the  *)
(* identifier generator, the detectors of the four obfuscation levels, the *)
(* background worker of obfuscate_all, reversal and the undo history.      *)
(*                                                                         *)
(* A text is a sequence of one-character strings, so that str.replace,     *)
(* the regular expressions and the slicing of the source are computed      *)
(* character by character as Python computes them.                         *)
(***************************************************************************)
EXTENDS Integers, Sequences, FiniteSets, TLC

(***************************************************************************)
(* Characters.                                                             *)
(***************************************************************************)
UpperC == {"A","B","C","D","E","F","G","H","I","J","K","L","M",
           "N","O","P","Q","R","S","T","U","V","W","X","Y","Z"}
LowerC == {"a","b","c","d","e","f","g","h","i","j","k","l","m",
           "n","o","p","q","r","s","t","u","v","w","x","y","z"}
DigitC == {"0","1","2","3","4","5","6","7","8","9"}
LetterC == UpperC \cup LowerC
\* \w of Python's re on the model's alphabet
WordC == LetterC \cup DigitC \cup {"_"}
\* \s of Python's re, and the characters str.strip() removes
SpaceC == {" ", "\n", "\t", "\r"}
HexC == DigitC \cup {"a","b","c","d","e","f","A","B","C","D","E","F"}

\* the backtick, the one character a TLA+ string cannot hold
Backtick == "backtick"

\* str.lower() on one character
LowerOf(c) ==
    CASE c = "A" -> "a" [] c = "B" -> "b" [] c = "C" -> "c" [] c = "D" -> "d"
      [] c = "E" -> "e" [] c = "F" -> "f" [] c = "G" -> "g" [] c = "H" -> "h"
      [] c = "I" -> "i" [] c = "J" -> "j" [] c = "K" -> "k" [] c = "L" -> "l"
      [] c = "M" -> "m" [] c = "N" -> "n" [] c = "O" -> "o" [] c = "P" -> "p"
      [] c = "Q" -> "q" [] c = "R" -> "r" [] c = "S" -> "s" [] c = "T" -> "t"
      [] c = "U" -> "u" [] c = "V" -> "v" [] c = "W" -> "w" [] c = "X" -> "x"
      [] c = "Y" -> "y" [] c = "Z" -> "z" [] OTHER -> c

\* str.lower()
LowerStr(s) == [i \in 1..Len(s) |-> LowerOf(s[i])]

(***************************************************************************)
(* Strings as sequences: slicing, searching, replacing.                    *)
(***************************************************************************)
Max(a, b) == IF a >= b THEN a ELSE b
Min(a, b) == IF a <= b THEN a ELSE b

\* s[i-1:j]: the characters at positions i..j, clamped to the string as
\* Python clamps a slice; empty when j < i
Slice(s, i, j) ==
    LET a == Max(i, 1)
        b == Min(j, Len(s))
    IN  IF a > b THEN << >> ELSE SubSeq(s, a, b)

\* s.startswith(p, i-1): p occurs in s at position i
StartsWithAt(s, i, p) ==
    /\ i >= 1
    /\ i + Len(p) - 1 <= Len(s)
    /\ \A k \in 1..Len(p) : s[i + k - 1] = p[k]

StartsWith(s, p) == StartsWithAt(s, 1, p)

EndsWith(s, p) == Len(p) <= Len(s) /\ StartsWithAt(s, Len(s) - Len(p) + 1, p)

\* p in s (substring test)
Contains(s, p) == \E i \in 1..(Len(s) - Len(p) + 1) : StartsWithAt(s, i, p)

\* s.find(p, from-1) + 1: least position >= from where p occurs, 0 if none
RECURSIVE FindFrom(_, _, _)
FindFrom(s, p, from) ==
    IF from + Len(p) - 1 > Len(s) THEN 0
    ELSE IF StartsWithAt(s, from, p) THEN from
    ELSE FindFrom(s, p, from + 1)

\* s.rfind(c) + 1 for a one-character c: greatest position of c, 0 if none
RECURSIVE RFindChar(_, _, _)
RFindChar(s, c, i) ==
    IF i < 1 THEN 0
    ELSE IF s[i] = c THEN i
    ELSE RFindChar(s, c, i - 1)

\* str.replace(old, new) for a non-empty old: leftmost, non-overlapping, one pass
RECURSIVE ReplaceFrom(_, _, _, _)
ReplaceFrom(s, i, old, new) ==
    IF i > Len(s) THEN << >>
    ELSE IF StartsWithAt(s, i, old)
         THEN new \o ReplaceFrom(s, i + Len(old), old, new)
         ELSE << s[i] >> \o ReplaceFrom(s, i + 1, old, new)

\* str.replace(old, new) with an empty old inserts new around every character
RECURSIVE Intersperse(_, _, _)
Intersperse(s, i, new) ==
    IF i > Len(s) THEN new
    ELSE new \o << s[i] >> \o Intersperse(s, i + 1, new)

Replace(s, old, new) ==
    IF Len(old) = 0 THEN Intersperse(s, 1, new) ELSE ReplaceFrom(s, 1, old, new)

\* str.strip(): drop leading and trailing whitespace
RECURSIVE LStripPos(_, _)
LStripPos(s, i) ==
    IF i <= Len(s) /\ s[i] \in SpaceC THEN LStripPos(s, i + 1) ELSE i

RECURSIVE RStripPos(_, _)
RStripPos(s, j) ==
    IF j >= 1 /\ s[j] \in SpaceC THEN RStripPos(s, j - 1) ELSE j

Strip(s) == Slice(s, LStripPos(s, 1), RStripPos(s, Len(s)))

RStrip(s) == Slice(s, 1, RStripPos(s, Len(s)))

\* str.isdigit() on the model's alphabet
IsDigits(s) == Len(s) > 0 /\ \A i \in 1..Len(s) : s[i] \in DigitC

\* end of the maximal run of characters of class cls that starts at i (i-1 if none)
RECURSIVE RunEnd(_, _, _)
RunEnd(s, i, cls) ==
    IF i <= Len(s) /\ s[i] \in cls THEN RunEnd(s, i + 1, cls) ELSE i - 1

(***************************************************************************)
(* Numbers in placeholders: int(num_part) and f"{n:03d}".                  *)
(***************************************************************************)
DigitVal(c) ==
    CASE c = "0" -> 0 [] c = "1" -> 1 [] c = "2" -> 2 [] c = "3" -> 3
      [] c = "4" -> 4 [] c = "5" -> 5 [] c = "6" -> 6 [] c = "7" -> 7
      [] c = "8" -> 8 [] c = "9" -> 9

DigitChar(d) ==
    CASE d = 0 -> "0" [] d = 1 -> "1" [] d = 2 -> "2" [] d = 3 -> "3"
      [] d = 4 -> "4" [] d = 5 -> "5" [] d = 6 -> "6" [] d = 7 -> "7"
      [] d = 8 -> "8" [] d = 9 -> "9"

\* int(s) for a string of digits
RECURSIVE ParseInt(_)
ParseInt(s) ==
    IF Len(s) = 0 THEN 0
    ELSE 10 * ParseInt(Slice(s, 1, Len(s) - 1)) + DigitVal(s[Len(s)])

\* str(n) for n >= 0
RECURSIVE Decimal(_)
Decimal(n) ==
    IF n < 10 THEN << DigitChar(n) >>
    ELSE Decimal(n \div 10) \o << DigitChar(n % 10) >>

\* f"{n:03d}": decimal, zero-padded to at least three digits
Pad3(n) ==
    LET d == Decimal(n)
    IN  IF Len(d) >= 3 THEN d
        ELSE [i \in 1..(3 - Len(d)) |-> "0"] \o d

(***************************************************************************)
(* The mapping table: Python's dict keeps insertion order, and reversal    *)
(* iterates it in that order, so the table is a sequence of entries with   *)
(* distinct originals.                                                     *)
(***************************************************************************)
Entry(o, p) == [original |-> o, obfuscated |-> p]

\* original in self.mappings
MapHas(m, o) == \E i \in 1..Len(m) : m[i].original = o

\* self.mappings[original]
MapGet(m, o) == m[CHOOSE i \in 1..Len(m) : m[i].original = o].obfuscated

\* self.mappings.values()
MapValues(m) == {m[i].obfuscated : i \in 1..Len(m)}

MapKeys(m) == {m[i].original : i \in 1..Len(m)}

\* self.mappings[original] = obfuscated: an existing key keeps its place
MapPut(m, o, p) ==
    IF MapHas(m, o)
    THEN [i \in 1..Len(m) |-> IF m[i].original = o THEN Entry(o, p) ELSE m[i]]
    ELSE Append(m, Entry(o, p))

\* the whole table deleted
MapClear(m, o) == << >>

\* del self.mappings[original]
MapDel(m, o) ==
    LET k == CHOOSE i \in 1..Len(m) : m[i].original = o
    IN  Slice(m, 1, k - 1) \o Slice(m, k + 1, Len(m))

(***************************************************************************)
(* Categories and placeholders.                                            *)
(***************************************************************************)
PERSON == <<"P", "E", "R", "S", "O", "N">>
ENTITY == <<"E", "N", "T", "I", "T", "Y">>
ORG == <<"O", "R", "G">>
ITEM == <<"I", "T", "E", "M">>
NAME == <<"N", "A", "M", "E">>
ID == <<"I", "D">>
REF == <<"R", "E", "F">>
GUID == <<"G", "U", "I", "D">>
COMMENT == <<"C", "O", "M", "M", "E", "N", "T">>
BODY == <<"B", "O", "D", "Y">>
PATH == <<"P", "A", "T", "H">>

\* the categories random.choice draws from in generate_ai_identifier
categories == << PERSON, ENTITY, ORG, ITEM, NAME, ID, REF >>

GenericCategories == {categories[i] : i \in 1..Len(categories)}

\* the categories is_obfuscated_identifier recognizes
AllCategories == GenericCategories \cup {GUID, COMMENT, BODY, PATH}

\* the numbers of the placeholders of a category that the table holds:
\* value.startswith(category), len(value) > len(category), the rest isdigit()
ExistingNums(m, category) ==
    {ParseInt(Slice(v, Len(category) + 1, Len(v))) :
        v \in {x \in MapValues(m) :
                 /\ StartsWith(x, category)
                 /\ Len(x) > Len(category)
                 /\ IsDigits(Slice(x, Len(category) + 1, Len(x)))}}

SetMax(S) == CHOOSE x \in S : \A y \in S : y <= x

\* max(existing_nums) + 1 if existing_nums else 1
NextNum(m, category) ==
    LET nums == ExistingNums(m, category)
    IN  IF nums = {} THEN 1 ELSE SetMax(nums) + 1

\* f"{category}{next_num:03d}"
Placeholder(category, n) == category \o Pad3(n)

\* generate_ai_identifier, with the category random.choice returned
generate_ai_identifier(m, original_word, category) ==
    IF MapHas(m, original_word) THEN MapGet(m, original_word)
    ELSE Placeholder(category, NextNum(m, category))

\* "if x not in self.mappings: self.mappings[x] = generate_ai_identifier(x)"
\* on a table m and the remaining random draws rnd; id is self.mappings[x]
Register(m, rnd, x) ==
    IF MapHas(m, x) THEN [map |-> m, rnd |-> rnd, id |-> MapGet(m, x)]
    ELSE LET p == generate_ai_identifier(m, x, Head(rnd))
         IN  [map |-> MapPut(m, x, p), rnd |-> Tail(rnd), id |-> p]

(***************************************************************************)
(* Vocabulary.                                                             *)
(***************************************************************************)
\* get_default_known_words, restricted to the words the model's texts and
\* placeholders can form
known_words == {
    <<"g", "e", "t">>,
    <<"s", "e", "t">>,
    <<"i", "s">>,
    <<"i", "d">>,
    <<"i", "t", "e", "m">>,
    <<"n", "a", "m", "e">>,
    <<"b", "o", "d", "y">>,
    <<"p", "a", "t", "h">>,
    <<"d", "a", "t", "a">>,
    <<"i", "f">>,
    <<"e", "l", "s", "e">>,
    <<"f", "o", "r">>,
    <<"w", "h", "i", "l", "e">>,
    <<"r", "e", "t", "u", "r", "n">>,
    <<"c", "l", "a", "s", "s">>,
    <<"f", "u", "n", "c", "t", "i", "o", "n">>,
    <<"v", "a", "r">>,
    <<"n", "e", "w">> }

known_lower == {LowerStr(w) : w \in known_words}

\* word in self.known_words or word.lower() in {w.lower() for w in self.known_words}
IsKnown(word) == word \in known_words \/ LowerStr(word) \in known_lower

(***************************************************************************)
(* split_camel_case:                                                       *)
(*   re.findall(r'[A-Z]?[a-z]+|[A-Z]+(?=[A-Z][a-z]|\d|\W|$)|\d+', word)    *)
(***************************************************************************)
\* the lookahead (?=[A-Z][a-z]|\d|\W|$) at position i
CamelLookahead(w, i) ==
    \/ i > Len(w)
    \/ i + 1 <= Len(w) /\ w[i] \in UpperC /\ w[i + 1] \in LowerC
    \/ w[i] \in DigitC
    \/ w[i] \notin WordC

\* [A-Z]+ is greedy and backtracks: the longest run ending where the lookahead holds
RECURSIVE UpperRunEnd(_, _, _)
UpperRunEnd(w, i, k) ==
    IF k < i THEN 0
    ELSE IF CamelLookahead(w, k + 1) THEN k
    ELSE UpperRunEnd(w, i, k - 1)

\* end of the match that starts at i, 0 if the pattern does not match there
CamelMatchEnd(w, i) ==
    IF w[i] \in UpperC /\ i + 1 <= Len(w) /\ w[i + 1] \in LowerC
    THEN RunEnd(w, i + 1, LowerC)
    ELSE IF w[i] \in LowerC THEN RunEnd(w, i, LowerC)
    ELSE IF w[i] \in UpperC /\ UpperRunEnd(w, i, RunEnd(w, i, UpperC)) > 0
    THEN UpperRunEnd(w, i, RunEnd(w, i, UpperC))
    ELSE IF w[i] \in DigitC THEN RunEnd(w, i, DigitC)
    ELSE 0

RECURSIVE CamelFindAll(_, _)
CamelFindAll(w, i) ==
    IF i > Len(w) THEN << >>
    ELSE LET e == CamelMatchEnd(w, i)
         IN  IF e = 0 THEN CamelFindAll(w, i + 1)
             ELSE << Slice(w, i, e) >> \o CamelFindAll(w, e + 1)

\* return parts if parts else [word]
split_camel_case(word) ==
    LET parts == CamelFindAll(word, 1)
    IN  IF parts = << >> THEN << word >> ELSE parts

\* \d+$ : digits, then the end of the string or its final newline
IsDigitsDollar(s) ==
    \/ IsDigits(s)
    \/ Len(s) > 1 /\ s[Len(s)] = "\n" /\ IsDigits(Slice(s, 1, Len(s) - 1))

\* is_obfuscated_identifier: re.match(r'^(PERSON|...|PATH)\d+$', word)
is_obfuscated_identifier(word) ==
    \E c \in AllCategories :
        StartsWith(word, c) /\ IsDigitsDollar(Slice(word, Len(c) + 1, Len(word)))

(***************************************************************************)
(* auto_obfuscate_word. A run is [res, unk, map, rnd]: result_parts and    *)
(* unknown_sequence joined, the table, the remaining random draws.         *)
(***************************************************************************)
\* the unknown sequence dropped, nothing registered
DropUnknown(st) == [st EXCEPT !.unk = << >>]

\* "if unknown_sequence: ... result_parts.append(self.mappings[unknown_combined])"
FlushUnknown(st) ==
    IF st.unk = << >> THEN st
    ELSE LET r == Register(st.map, st.rnd, st.unk)
         IN  [res |-> st.res \o r.id, unk |-> << >>, map |-> r.map, rnd |-> r.rnd]

\* one iteration of "for part in parts"
CamelPart(st, part) ==
    IF is_obfuscated_identifier(part) \/ IsDigits(part) \/ IsKnown(part)
    THEN LET f == FlushUnknown(st) IN [f EXCEPT !.res = f.res \o part]
    ELSE [st EXCEPT !.unk = st.unk \o part]

RECURSIVE CamelParts(_, _, _)
CamelParts(st, parts, i) ==
    IF i > Len(parts) THEN FlushUnknown(st)
    ELSE CamelParts(CamelPart(st, parts[i]), parts, i + 1)

\* auto_obfuscate_word(word) on table m: [res, map, rnd]
Joined(st) == [res |-> st.res, map |-> st.map, rnd |-> st.rnd]

auto_obfuscate_word(m, rnd, word) ==
    IF \/ is_obfuscated_identifier(word)
       \/ word \in MapValues(m)
       \/ IsKnown(word)
    THEN [res |-> word, map |-> m, rnd |-> rnd]
    ELSE LET parts == split_camel_case(word)
         IN  IF Len(parts) <= 1
             THEN LET r == Register(m, rnd, word)
                  IN  [res |-> r.id, map |-> r.map, rnd |-> r.rnd]
             ELSE Joined(CamelParts([res |-> << >>, unk |-> << >>,
                                     map |-> m, rnd |-> rnd], parts, 1))

(***************************************************************************)
(* Identifiers: re.sub(r'\b[a-zA-Z_][a-zA-Z0-9_]*\b', f, text).            *)
(***************************************************************************)
\* an identifier starts at i: a letter or underscore at a word boundary
IdentStartsAt(t, i) ==
    /\ t[i] \in LetterC \cup {"_"}
    /\ (i = 1 \/ t[i - 1] \notin WordC)

\* the detector's pass from position i on; st is [out, map, rnd]
\* the text so far with the replacement r.res of one match appended
Substituted(out, r) == [out |-> out \o r.res, map |-> r.map, rnd |-> r.rnd]

RECURSIVE SubIdentifiers(_, _, _)
SubIdentifiers(t, i, st) ==
    IF i > Len(t) THEN st
    ELSE IF IdentStartsAt(t, i)
    THEN SubIdentifiers(t, RunEnd(t, i, WordC) + 1,
             Substituted(st.out, auto_obfuscate_word(st.map, st.rnd,
                                     Slice(t, i, RunEnd(t, i, WordC)))))
    ELSE SubIdentifiers(t, i + 1, [st EXCEPT !.out = st.out \o << t[i] >>])

\* what a detector pass returns: the new text, the table, the draws left, and
\* whether the action goes on to write the text back (False on an early return)
Pass(out, m, rnd, wr) == [out |-> out, map |-> m, rnd |-> rnd, write |-> wr]

\* the pass ran to its end on the state st and writes st.out back; a detector
\* that draws no category leaves the draws as they were
Written(st, rnd) == Pass(st.out, st.map, rnd, TRUE)

WrittenDrawn(st) == Pass(st.out, st.map, st.rnd, TRUE)

\* _action_obfuscate_identifiers on the text it read and the table
obfuscate_identifiers(t, m, rnd) ==
    WrittenDrawn(SubIdentifiers(t, 1, [out |-> << >>, map |-> m, rnd |-> rnd]))

(***************************************************************************)
(* Spans of regular-expression matches. A span [s, e, txt] is the match    *)
(* at positions s..e (match.start() = s-1, match.end() = e) and its text.  *)
(***************************************************************************)
Span(t, s, e) == [s |-> s, e |-> e, txt |-> Slice(t, s, e)]

\* text[:start] + replacement + text[end:]
Splice(t, sp, replacement) ==
    Slice(t, 1, sp.s - 1) \o replacement \o Slice(t, sp.e + 1, Len(t))

\* any(s <= pos < e for s, e in ranges), pos the start of a match
Covered(spans, pos) == \E k \in 1..Len(spans) : spans[k].s <= pos /\ pos <= spans[k].e

\* list.sort(key=lambda x: x[0], reverse=True): stable, by start, descending
RECURSIVE InsertDesc(_, _, _)
InsertDesc(sorted, sp, k) ==
    IF k > Len(sorted) \/ sorted[k].s < sp.s
    THEN Slice(sorted, 1, k - 1) \o << sp >> \o Slice(sorted, k, Len(sorted))
    ELSE InsertDesc(sorted, sp, k + 1)

RECURSIVE SortDescFrom(_, _, _)
SortDescFrom(spans, k, sorted) ==
    IF k > Len(spans) THEN sorted
    ELSE SortDescFrom(spans, k + 1, InsertDesc(sorted, spans[k], 1))

SortDesc(spans) == SortDescFrom(spans, 1, << >>)

\* re.finditer(open + r'.*?' + close, text, re.DOTALL) from position i on
RECURSIVE FindBlocks(_, _, _, _)
FindBlocks(t, i, open, close) ==
    IF i > Len(t) THEN << >>
    ELSE IF StartsWithAt(t, i, open) /\ FindFrom(t, close, i + Len(open)) > 0
    THEN LET e == FindFrom(t, close, i + Len(open)) + Len(close) - 1
         IN  << Span(t, i, e) >> \o FindBlocks(t, e + 1, open, close)
    ELSE FindBlocks(t, i + 1, open, close)

\* end of [^\n]* from position i
RECURSIVE LineEnd(_, _)
LineEnd(t, i) == IF i <= Len(t) /\ t[i] # "\n" THEN LineEnd(t, i + 1) ELSE i - 1

\* re.finditer(open + r'(?!not)[^\n]*', text) from position i on; not = << >>
\* when the pattern has no negative lookahead
RECURSIVE FindLines(_, _, _, _)
FindLines(t, i, open, not) ==
    IF i > Len(t) THEN << >>
    ELSE IF /\ StartsWithAt(t, i, open)
            /\ (not = << >> \/ ~StartsWithAt(t, i + Len(open), not))
    THEN LET e == LineEnd(t, i + Len(open))
         IN  << Span(t, i, e) >> \o FindLines(t, e + 1, open, not)
    ELSE FindLines(t, i + 1, open, not)

\* "if not any(s <= match.start() < e ...): comments_to_replace.append(...)"
RECURSIVE AppendUncovered(_, _, _)
AppendUncovered(acc, found, k) ==
    IF k > Len(found) THEN acc
    ELSE AppendUncovered(
             IF Covered(acc, found[k].s) THEN acc ELSE Append(acc, found[k]),
             found, k + 1)

BlockOpen == <<"/", "*">>
BlockClose == <<"*", "/">>
HtmlOpen == <<"<", "!", "-", "-">>
HtmlClose == <<"-", "-", ">">>
LuaOpen == <<"-", "-", "[", "[">>
LuaClose == <<"]", "]">>
XmlDocOpen == <<"/", "/", "/">>
LineOpen == <<"/", "/">>
HashOpen == <<"#">>
SqlOpen == <<"-", "-">>
LuaBrackets == <<"[", "[">>

(***************************************************************************)
(* _action_remove_comments.                                                *)
(***************************************************************************)
\* the collection of comments_to_replace, before the sort
CollectComments(t) ==
    LET blocks == FindBlocks(t, 1, BlockOpen, BlockClose)
                  \o FindBlocks(t, 1, HtmlOpen, HtmlClose)
                  \o FindBlocks(t, 1, LuaOpen, LuaClose)
        a1 == AppendUncovered(blocks, FindLines(t, 1, XmlDocOpen, << >>), 1)
        a2 == AppendUncovered(a1, FindLines(t, 1, LineOpen, << >>), 1)
        a3 == AppendUncovered(a2, FindLines(t, 1, HashOpen, << >>), 1)
    IN  AppendUncovered(a3, FindLines(t, 1, SqlOpen, LuaBrackets), 1)

\* "$": the end of the string, or just before its final newline
AtDollar(c, i) == i > Len(c) \/ (i = Len(c) /\ c[i] = "\n")

\* re.match('^' + open + r'\s*COMMENT\d+\s*' + close + '$', comment_text)
IsCommentPlaceholder(c, open, close) ==
    /\ StartsWith(c, open)
    /\ LET a == RunEnd(c, Len(open) + 1, SpaceC) + 1
       IN  /\ StartsWithAt(c, a, COMMENT)
           /\ LET d == RunEnd(c, a + Len(COMMENT), DigitC)
              IN  /\ d >= a + Len(COMMENT)
                  /\ \E b \in d..RunEnd(c, d + 1, SpaceC) :
                        /\ StartsWithAt(c, b + 1, close)
                        /\ AtDollar(c, b + 1 + Len(close))

\* the six "Skip if already a placeholder" tests
AlreadyCommentPlaceholder(c) ==
    \/ IsCommentPlaceholder(c, BlockOpen, BlockClose)
    \/ IsCommentPlaceholder(c, LineOpen, << >>)
    \/ IsCommentPlaceholder(c, HashOpen, << >>)
    \/ IsCommentPlaceholder(c, XmlDocOpen, << >>)
    \/ IsCommentPlaceholder(c, SqlOpen, << >>)
    \/ IsCommentPlaceholder(c, HtmlOpen, HtmlClose)

\* comment_style, by the chain of startswith/endswith tests
CommentStyle(c) ==
    IF StartsWith(c, BlockOpen) /\ EndsWith(c, BlockClose) THEN "block"
    ELSE IF StartsWith(c, HtmlOpen) /\ EndsWith(c, HtmlClose) THEN "html"
    ELSE IF StartsWith(c, LuaOpen) /\ EndsWith(c, LuaClose) THEN "lua"
    ELSE IF StartsWith(c, XmlDocOpen) THEN "xmldoc"
    ELSE IF StartsWith(c, LineOpen) THEN "line"
    ELSE IF StartsWith(c, HashOpen) THEN "hash"
    ELSE IF StartsWith(c, SqlOpen) THEN "sql"
    ELSE "other"

\* comment_text[a:-b]: drop a leading and b trailing characters
Inner(c, a, b) == Slice(c, a + 1, Len(c) - b)

\* comment_content
CommentContent(c) ==
    LET style == CommentStyle(c)
    IN  CASE style = "block"  -> Strip(Inner(c, 2, 2))
          [] style = "html"   -> Strip(Inner(c, 4, 3))
          [] style = "lua"    -> Strip(Inner(c, 4, 2))
          [] style = "xmldoc" -> Strip(Inner(c, 3, 0))
          [] style = "line"   -> Strip(Inner(c, 2, 0))
          [] style = "hash"   -> Strip(Inner(c, 1, 0))
          [] style = "sql"    -> Strip(Inner(c, 2, 0))
          [] OTHER            -> c

\* replacement: the placeholder in the delimiters of the comment's style
CommentReplacement(style, placeholder) ==
    CASE style = "block"  -> BlockOpen \o << " " >> \o placeholder \o << " " >> \o BlockClose
      [] style = "html"   -> HtmlOpen \o << " " >> \o placeholder \o << " " >> \o HtmlClose
      [] style = "lua"    -> LuaOpen \o << " " >> \o placeholder \o << " " >> \o LuaClose
      [] style = "xmldoc" -> XmlDocOpen \o << " " >> \o placeholder
      [] style = "line"   -> LineOpen \o << " " >> \o placeholder
      [] style = "hash"   -> HashOpen \o << " " >> \o placeholder
      [] style = "sql"    -> SqlOpen \o << " " >> \o placeholder
      [] OTHER            -> BlockOpen \o << " " >> \o placeholder \o << " " >> \o BlockClose

\* one iteration of "for start, end, comment_text in comments_to_replace"
\* on st = [out, map]
ReplaceComment(st, sp) ==
    LET content == CommentContent(sp.txt)
    IN  IF \/ AlreadyCommentPlaceholder(sp.txt)
           \/ content = << >>
           \/ content \in MapValues(st.map)
        THEN st
        ELSE LET m == IF MapHas(st.map, content) THEN st.map
                      ELSE MapPut(st.map, content,
                                  Placeholder(COMMENT, NextNum(st.map, COMMENT)))
             IN  [out |-> Splice(st.out, sp,
                                 CommentReplacement(CommentStyle(sp.txt),
                                                    MapGet(m, content))),
                  map |-> m]

RECURSIVE ReplaceComments(_, _, _)
ReplaceComments(st, spans, k) ==
    IF k > Len(spans) THEN st
    ELSE ReplaceComments(ReplaceComment(st, spans[k]), spans, k + 1)

\* _action_remove_comments on the text it read and the table
remove_comments(t, m, rnd) ==
    LET found == CollectComments(t)
    IN  IF found = << >> THEN Pass(t, m, rnd, FALSE)
        ELSE Written(ReplaceComments([out |-> t, map |-> m], SortDesc(found), 1),
                     rnd)

(***************************************************************************)
(* _action_remove_empty_lines.                                             *)
(***************************************************************************)
\* text.split('\n') from position i on
RECURSIVE SplitLines(_, _)
SplitLines(t, i) ==
    LET e == LineEnd(t, i)
    IN  IF e >= Len(t) THEN << Slice(t, i, e) >>
        ELSE << Slice(t, i, e) >> \o SplitLines(t, e + 2)

\* the loop building cleaned_lines
RECURSIVE CleanLines(_, _, _)
CleanLines(lines, k, cleaned) ==
    IF k > Len(lines) THEN cleaned
    ELSE LET stripped == RStrip(lines[k])
         IN  CleanLines(lines, k + 1,
                 IF stripped # << >> THEN Append(cleaned, stripped)
                 ELSE IF cleaned # << >> /\ cleaned[Len(cleaned)] # << >>
                      THEN Append(cleaned, << >>)
                      ELSE cleaned)

\* '\n'.join(lines)
RECURSIVE JoinLines(_, _)
JoinLines(lines, k) ==
    IF k > Len(lines) THEN << >>
    ELSE IF k = Len(lines) THEN lines[k]
    ELSE lines[k] \o << "\n" >> \o JoinLines(lines, k + 1)

\* positions of the newlines in the whitespace run i..e
NewlinesIn(t, i, e) == {k \in i..e : t[k] = "\n"}

\* re.sub(r'\n\s*\n\s*\n+', '\n\n', text) from position i on: a match starts
\* at a newline whose run of whitespace holds three newlines, and ends at
\* the last of them
RECURSIVE CollapseBlank(_, _)
CollapseBlank(t, i) ==
    IF i > Len(t) THEN << >>
    ELSE IF t[i] = "\n" /\ Cardinality(NewlinesIn(t, i, RunEnd(t, i, SpaceC))) >= 3
    THEN << "\n", "\n" >>
         \o CollapseBlank(t, SetMax(NewlinesIn(t, i, RunEnd(t, i, SpaceC))) + 1)
    ELSE << t[i] >> \o CollapseBlank(t, i + 1)

\* text.rstrip('\n')
RECURSIVE RStripNewlines(_)
RStripNewlines(t) ==
    IF t # << >> /\ t[Len(t)] = "\n" THEN RStripNewlines(Slice(t, 1, Len(t) - 1))
    ELSE t

\* _action_remove_empty_lines on the text it read
remove_empty_lines(t, m, rnd) ==
    LET cleaned == JoinLines(CleanLines(SplitLines(t, 1), 1, << >>), 1)
    IN  Pass(RStripNewlines(CollapseBlank(cleaned, 1)), m, rnd, TRUE)

(***************************************************************************)
(* _action_obfuscate_strings.                                              *)
(***************************************************************************)
\* the end of q(?:[^q\\\n\r]|\\[^\n\r])*q from the position j after the
\* opening quote; 0 if the pattern does not match
RECURSIVE StringEnd(_, _, _)
StringEnd(t, j, q) ==
    IF j > Len(t) THEN 0
    ELSE IF t[j] = q THEN j
    ELSE IF t[j] = "\\"
         THEN IF j + 1 <= Len(t) /\ t[j + 1] \notin {"\n", "\r"}
              THEN StringEnd(t, j + 2, q)
              ELSE 0
    ELSE IF t[j] \in {"\n", "\r"} THEN 0
    ELSE StringEnd(t, j + 1, q)

\* re.finditer(the quote pattern of q, text) from position i on
RECURSIVE FindStrings(_, _, _)
FindStrings(t, i, q) ==
    IF i > Len(t) THEN << >>
    ELSE IF t[i] = q /\ StringEnd(t, i + 1, q) > 0
    THEN << [s |-> i, e |-> StringEnd(t, i + 1, q),
             txt |-> Slice(t, i, StringEnd(t, i + 1, q)), q |-> q] >>
         \o FindStrings(t, StringEnd(t, i + 1, q) + 1, q)
    ELSE FindStrings(t, i + 1, q)

\* comment_ranges of the string detector
StringCommentRanges(t) ==
    FindBlocks(t, 1, BlockOpen, BlockClose)
    \o FindLines(t, 1, LineOpen, << >>)
    \o FindLines(t, 1, HashOpen, << >>)

\* has_interpolation(content)
has_interpolation(content) ==
    (\E i \in 1..Len(content) : content[i] = "{")
    /\ (\E i \in 1..Len(content) : content[i] = "}")

\* the test that puts a match on strings_to_replace
StringQualifies(sp, ranges, m) ==
    LET string_content == Inner(sp.txt, 1, 1)
    IN  /\ ~Covered(ranges, sp.s)
        /\ string_content # << >>
        /\ string_content \notin MapValues(m)
        /\ ~has_interpolation(string_content)

\* strings_to_replace, before the sort: double-quoted, then single-quoted
CollectStrings(t, m) ==
    LET ranges == StringCommentRanges(t)
    IN  SelectSeq(FindStrings(t, 1, "\""), LAMBDA sp : StringQualifies(sp, ranges, m))
        \o SelectSeq(FindStrings(t, 1, "'"), LAMBDA sp : StringQualifies(sp, ranges, m))

\* one iteration of the replacement loop on st = [out, map, rnd]
ReplaceString(st, sp) ==
    LET r == Register(st.map, st.rnd, Inner(sp.txt, 1, 1))
    IN  [out |-> Splice(st.out, sp, << sp.q >> \o r.id \o << sp.q >>),
         map |-> r.map, rnd |-> r.rnd]

RECURSIVE ReplaceStrings(_, _, _)
ReplaceStrings(st, spans, k) ==
    IF k > Len(spans) THEN st
    ELSE ReplaceStrings(ReplaceString(st, spans[k]), spans, k + 1)

\* _action_obfuscate_strings on the text it read and the table
obfuscate_strings(t, m, rnd) ==
    LET found == CollectStrings(t, m)
    IN  IF found = << >> THEN Pass(t, m, rnd, FALSE)
        ELSE WrittenDrawn(ReplaceStrings([out |-> t, map |-> m, rnd |-> rnd],
                                         SortDesc(found), 1))

(***************************************************************************)
(* _action_obfuscate_guids.                                                *)
(***************************************************************************)
\* [0-9a-fA-F]{n} at position a
AllHex(t, a, n) == a + n - 1 <= Len(t) /\ \A k \in a..(a + n - 1) : t[k] \in HexC

DashAt(t, a) == a <= Len(t) /\ t[a] = "-"

\* the 8-4-4-4-12 groups from position b
GuidBodyAt(t, b) ==
    /\ AllHex(t, b, 8) /\ DashAt(t, b + 8)
    /\ AllHex(t, b + 9, 4) /\ DashAt(t, b + 13)
    /\ AllHex(t, b + 14, 4) /\ DashAt(t, b + 18)
    /\ AllHex(t, b + 19, 4) /\ DashAt(t, b + 23)
    /\ AllHex(t, b + 24, 12)

\* end of the match of guid_pattern at i, 0 if none: \{? and \}? are greedy
GuidMatchEnd(t, i) ==
    LET b == IF t[i] = "{" THEN i + 1 ELSE i
    IN  IF ~GuidBodyAt(t, b) THEN 0
        ELSE IF b + 36 <= Len(t) /\ t[b + 36] = "}" THEN b + 36
        ELSE b + 35

\* list(re.finditer(guid_pattern, text)) from position i on
RECURSIVE FindGuids(_, _)
FindGuids(t, i) ==
    IF i > Len(t) THEN << >>
    ELSE IF GuidMatchEnd(t, i) > 0
    THEN << Span(t, i, GuidMatchEnd(t, i)) >> \o FindGuids(t, GuidMatchEnd(t, i) + 1)
    ELSE FindGuids(t, i + 1)

\* one iteration of "for match in reversed(guids_found)" on st = [out, map]
ReplaceGuid(st, sp) ==
    IF sp.txt \in MapValues(st.map) THEN st
    ELSE LET m == IF MapHas(st.map, sp.txt) THEN st.map
                  ELSE MapPut(st.map, sp.txt, Placeholder(GUID, NextNum(st.map, GUID)))
         IN  [out |-> Splice(st.out, sp, MapGet(m, sp.txt)), map |-> m]

\* the loop over reversed(guids_found): k runs from the last match down
RECURSIVE ReplaceGuids(_, _, _)
ReplaceGuids(st, spans, k) ==
    IF k < 1 THEN st
    ELSE ReplaceGuids(ReplaceGuid(st, spans[k]), spans, k - 1)

\* _action_obfuscate_guids on the text it read and the table
obfuscate_guids(t, m, rnd) ==
    LET found == FindGuids(t, 1)
    IN  IF found = << >> THEN Pass(t, m, rnd, FALSE)
        ELSE Written(ReplaceGuids([out |-> t, map |-> m], found, Len(found)),
                     rnd)

(***************************************************************************)
(* _action_obfuscate_paths.                                                *)
(***************************************************************************)
QuoteC == {"\"", "'"}
\* the characters the classes of the patterns exclude or admit
UrlStop == SpaceC \cup {"'", "\"", "<", ">", ")", "}", "]"}
WinStop == SpaceC \cup {"/", ":", "*", "?", "\"", "<", ">", "|", "'"}
UncStop == SpaceC \cup {"'", "\"", "<", ">"}
PathC == LetterC \cup DigitC \cup {"_", "-", ".", "/"}
ApiC == PathC \cup {"{", "}", ":", "[", "]", "@"}
SegC == LetterC \cup DigitC \cup {"_", "-"}

\* end of the maximal run of characters outside stop that starts at i
RECURSIVE RunEndNot(_, _, _)
RunEndNot(t, i, stop) ==
    IF i <= Len(t) /\ t[i] \notin stop THEN RunEndNot(t, i + 1, stop) ELSE i - 1
SchemeSep == <<":", "/", "/">>
Http == <<"h", "t", "t", "p">>
Https == <<"h", "t", "t", "p", "s">>
Ftp == <<"f", "t", "p">>
File == <<"f", "i", "l", "e">>
Ws == <<"w", "s">>
Wss == <<"w", "s", "s">>
WinSep == <<":", "\\">>
UncOpen == <<"\\", "\\">>

\* (?:https?|ftp|file|wss?):// at i: the position after "://", 0 if no match
UrlSchemeEnd(t, i) ==
    LET after(scheme) == IF StartsWithAt(t, i, scheme \o SchemeSep)
                         THEN i + Len(scheme) + Len(SchemeSep) ELSE 0
    IN  IF after(Https) > 0 THEN after(Https)
        ELSE IF after(Http) > 0 THEN after(Http)
        ELSE IF after(Ftp) > 0 THEN after(Ftp)
        ELSE IF after(File) > 0 THEN after(File)
        ELSE IF after(Wss) > 0 THEN after(Wss)
        ELSE after(Ws)

\* url_pattern at i: end of the match, 0 if none
UrlMatchEnd(t, i) ==
    LET b == UrlSchemeEnd(t, i)
    IN  IF b > 0 /\ RunEndNot(t, b, UrlStop) >= b THEN RunEndNot(t, b, UrlStop) ELSE 0

\* windows_abs_pattern at i
WindowsMatchEnd(t, i) ==
    IF /\ t[i] \in LetterC
       /\ StartsWithAt(t, i + 1, WinSep)
       /\ RunEndNot(t, i + 3, WinStop) >= i + 3
    THEN RunEndNot(t, i + 3, WinStop) ELSE 0

\* unc_pattern at i
UncMatchEnd(t, i) ==
    IF StartsWithAt(t, i, UncOpen) /\ RunEndNot(t, i + 2, UncStop) >= i + 2
    THEN RunEndNot(t, i + 2, UncStop) ELSE 0

\* (?<=["\']) at i and (?=["\']) after e
QuoteBefore(t, i) == i > 1 /\ t[i - 1] \in QuoteC
QuoteAfter(t, e) == e + 1 <= Len(t) /\ t[e + 1] \in QuoteC

\* unix_abs_pattern (cls = PathC) and api_route_pattern (cls = ApiC) at i
SlashMatchEnd(t, i, cls) ==
    IF /\ QuoteBefore(t, i)
       /\ t[i] = "/"
       /\ RunEnd(t, i + 1, cls) >= i + 1
       /\ QuoteAfter(t, RunEnd(t, i + 1, cls))
    THEN RunEnd(t, i + 1, cls) ELSE 0

UnixMatchEnd(t, i) == SlashMatchEnd(t, i, PathC)
ApiMatchEnd(t, i) == SlashMatchEnd(t, i, ApiC)

\* relative_pattern at i: \.\.?/ then one or more path characters
RelativeMatchEnd(t, i) ==
    LET b == IF StartsWithAt(t, i, << ".", ".", "/" >>) THEN i + 3
             ELSE IF StartsWithAt(t, i, << ".", "/" >>) THEN i + 2
             ELSE 0
    IN  IF b > 0 /\ RunEnd(t, b, PathC) >= b THEN RunEnd(t, b, PathC) ELSE 0

\* generic_path_pattern at i
GenericMatchEnd(t, i) ==
    LET e1 == RunEnd(t, i, SegC)
    IN  IF /\ QuoteBefore(t, i)
           /\ e1 >= i
           /\ e1 + 1 <= Len(t) /\ t[e1 + 1] = "/"
           /\ RunEnd(t, e1 + 2, PathC) >= e1 + 2
           /\ QuoteAfter(t, RunEnd(t, e1 + 2, PathC))
        THEN RunEnd(t, e1 + 2, PathC) ELSE 0

\* the end of the match of pattern kind at i
PathMatchEnd(t, i, kind) ==
    CASE kind = "url"      -> UrlMatchEnd(t, i)
      [] kind = "windows"  -> WindowsMatchEnd(t, i)
      [] kind = "unc"      -> UncMatchEnd(t, i)
      [] kind = "unix"     -> UnixMatchEnd(t, i)
      [] kind = "api"      -> ApiMatchEnd(t, i)
      [] kind = "relative" -> RelativeMatchEnd(t, i)
      [] kind = "generic"  -> GenericMatchEnd(t, i)

\* re.finditer(pattern, text) from position i on
RECURSIVE FindPaths(_, _, _)
FindPaths(t, i, kind) ==
    IF i > Len(t) THEN << >>
    ELSE IF PathMatchEnd(t, i, kind) > 0
    THEN << Span(t, i, PathMatchEnd(t, i, kind)) >>
         \o FindPaths(t, PathMatchEnd(t, i, kind) + 1, kind)
    ELSE FindPaths(t, i + 1, kind)

\* re.match(r'^[0-9.]+$', path)
LooksNumeric(path) ==
    LET e == RunEnd(path, 1, DigitC \cup {"."})
    IN  e >= 1 /\ AtDollar(path, e + 1)

\* the test that puts a match of pattern kind on paths_to_replace
PathQualifies(sp, kind, m) ==
    /\ sp.txt # << >>
    /\ ~StartsWith(sp.txt, PATH)
    /\ sp.txt \notin MapValues(m)
    /\ (kind \in {"unix", "api"} => Len(sp.txt) > 1)
    /\ (kind = "generic" => Len(sp.txt) > 3 /\ ~LooksNumeric(sp.txt))

PathKinds == << "url", "windows", "unc", "unix", "api", "relative", "generic" >>

\* paths_to_replace: the matches of the seven patterns, in the order scanned
RECURSIVE CollectPaths(_, _, _)
CollectPaths(t, m, k) ==
    IF k > Len(PathKinds) THEN << >>
    ELSE SelectSeq(FindPaths(t, 1, PathKinds[k]),
                   LAMBDA sp : PathQualifies(sp, PathKinds[k], m))
         \o CollectPaths(t, m, k + 1)

\* unique_paths: the first item of each (start, end)
RECURSIVE UniqueSpans(_, _, _)
UniqueSpans(spans, k, acc) ==
    IF k > Len(spans) THEN acc
    ELSE UniqueSpans(spans, k + 1,
             IF \E j \in 1..Len(acc) : acc[j].s = spans[k].s /\ acc[j].e = spans[k].e
             THEN acc ELSE Append(acc, spans[k]))

\* one iteration of "for start, end, path in unique_paths" on
\* st = [out, map, path_counter]
ReplacePath(st, sp) ==
    IF sp.txt \in MapValues(st.map) THEN st
    ELSE IF MapHas(st.map, sp.txt)
    THEN [st EXCEPT !.out = Splice(st.out, sp, MapGet(st.map, sp.txt))]
    ELSE LET placeholder == Placeholder(PATH, st.path_counter)
         IN  [out |-> Splice(st.out, sp, placeholder),
              map |-> MapPut(st.map, sp.txt, placeholder),
              path_counter |-> st.path_counter + 1]

RECURSIVE ReplacePaths(_, _, _)
ReplacePaths(st, spans, k) ==
    IF k > Len(spans) THEN st
    ELSE ReplacePaths(ReplacePath(st, spans[k]), spans, k + 1)

\* _action_obfuscate_paths from the scan on: the text it read, the table as
\* it is now, and the path_counter it computed when it started
obfuscate_paths(t, m, rnd, path_counter) ==
    LET found == CollectPaths(t, m, 1)
    IN  IF found = << >> THEN Pass(t, m, rnd, FALSE)
        ELSE Written(ReplacePaths(
                         [out |-> t, map |-> m, path_counter |-> path_counter],
                         SortDesc(UniqueSpans(found, 1, << >>)), 1), rnd)

(***************************************************************************)
(* _action_remove_function_bodies.                                         *)
(***************************************************************************)
\* the inner loop of find_matching_brace that skips a quoted string: the
\* position of the closing quote, or Len(t) + 1 if the text ends first
RECURSIVE SkipQuoted(_, _, _)
SkipQuoted(t, j, quote) ==
    IF j > Len(t) THEN j
    ELSE IF t[j] = "\\" /\ j + 1 <= Len(t) THEN SkipQuoted(t, j + 2, quote)
    ELSE IF t[j] = quote THEN j
    ELSE SkipQuoted(t, j + 1, quote)

\* the while loop of find_matching_brace from position i at the given depth:
\* the position of the closing brace, 0 for -1
RECURSIVE MatchBrace(_, _, _)
MatchBrace(t, i, depth) ==
    IF depth = 0 THEN i - 1
    ELSE IF i > Len(t) THEN 0
    ELSE IF t[i] = "{" THEN MatchBrace(t, i + 1, depth + 1)
    ELSE IF t[i] = "}" THEN MatchBrace(t, i + 1, depth - 1)
    ELSE IF t[i] \in {"\"", "'", Backtick}
         THEN MatchBrace(t, SkipQuoted(t, i + 1, t[i]) + 1, depth)
    ELSE MatchBrace(t, i + 1, depth)

\* a search that takes the end of the text for the closing brace when the
\* braces are not balanced
ClosedAtEnd(t, start_pos) ==
    IF start_pos > Len(t) \/ t[start_pos] # "{" THEN 0
    ELSE IF MatchBrace(t, start_pos + 1, 1) = 0 THEN Len(t)
    ELSE MatchBrace(t, start_pos + 1, 1)

\* find_matching_brace(text, start_pos), start_pos the position of a "{"
find_matching_brace(t, start_pos) ==
    IF start_pos > Len(t) \/ t[start_pos] # "{" THEN 0
    ELSE MatchBrace(t, start_pos + 1, 1)

\* how many characters back from the brace the closing parenthesis of the
\* signature is looked for
SignatureWindow == 200

\* greatest position in lo..i that holds c, 0 if none
RECURSIVE RFindCharIn(_, _, _, _)
RFindCharIn(s, c, lo, i) ==
    IF i < lo \/ i < 1 THEN 0
    ELSE IF s[i] = c THEN i
    ELSE RFindCharIn(s, c, lo, i - 1)

\* the class [\w<>\[\],\s\?|&] of the return-type pattern
TypeC == WordC \cup SpaceC \cup {"<", ">", "[", "]", ",", "?", "|", "&"}
Where == <<"w", "h", "e", "r", "e">>
control_keywords == <<<<"i", "f">>, <<"e", "l", "s", "e">>, <<"w", "h", "i", "l", "e">>, <<"f", "o", "r">>, <<"f", "o", "r", "e", "a", "c", "h">>, <<"s", "w", "i", "t", "c", "h">>, <<"c", "a", "t", "c", "h">>, <<"f", "i", "n", "a", "l", "l", "y">>, <<"l", "o", "c", "k">>, <<"u", "s", "i", "n", "g">>, <<"t", "r", "y">>>>
declaration_keywords == <<<<"c", "l", "a", "s", "s">>, <<"i", "n", "t", "e", "r", "f", "a", "c", "e">>, <<"s", "t", "r", "u", "c", "t">>, <<"n", "a", "m", "e", "s", "p", "a", "c", "e">>, <<"e", "n", "u", "m">>, <<"r", "e", "c", "o", "r", "d">>>>

\* is_valid_function, from what stands between the parenthesis and the brace
IsValidBetween(between) ==
    LET b == Strip(between)
    IN  \/ b = << >>
        \/ /\ Len(b) >= 2 /\ b[1] = ":"
           /\ \A k \in 2..Len(b) : b[k] \in TypeC
        \/ /\ StartsWith(b, Where)
           /\ Len(b) > Len(Where) /\ b[Len(Where) + 1] \in SpaceC

\* is_control, from the stripped signature
IsControl(sig) ==
    \/ \E k \in 1..Len(control_keywords) :
          LET kw == control_keywords[k]
          IN  \/ sig = kw
              \/ StartsWith(sig, kw \o << " " >>)
              \/ StartsWith(sig, kw \o << "(" >>)
    \/ \E k \in 1..Len(declaration_keywords) :
          LET kw == declaration_keywords[k]
          IN  Contains(sig, kw \o << " " >>) \/ EndsWith(sig, kw)

\* re.match(r'^BODY\d+$', body_content)
IsBodyPlaceholder(body) ==
    StartsWith(body, BODY) /\ IsDigitsDollar(Slice(body, Len(BODY) + 1, Len(body)))

\* the position of the closing parenthesis of the signature before the brace
\* at b, 0 if the brace does not follow a function signature
SignatureParen(t, b) ==
    LET p == RFindCharIn(t, ")", Max(1, b - SignatureWindow), b - 1)
    IN  IF p > 0 /\ IsValidBetween(Slice(t, p + 1, b - 1)) THEN p ELSE 0

\* sig_stripped for the brace at b and the closing parenthesis at p
SignatureOf(t, b, p) == Strip(Slice(t, RFindChar(t, "\n", p - 1) + 1, b - 1))

\* the closing brace of the body to replace at brace b, 0 if the brace at b
\* is not replaced
BodyClose(t, b) ==
    LET p == SignatureParen(t, b)
        c == find_matching_brace(t, b)
    IN  IF /\ p > 0
           /\ ~IsControl(SignatureOf(t, b, p))
           /\ c # 0 /\ c > b + 1
           /\ Strip(Slice(t, b + 1, c - 1)) # << >>
           /\ ~IsBodyPlaceholder(Strip(Slice(t, b + 1, c - 1)))
        THEN c ELSE 0

\* the scan "while i < len(result)" from position i on
\* st = [out, map, body_counter]
RECURSIVE ScanBodies(_, _)
ScanBodies(st, i) ==
    LET b == FindFrom(st.out, << "{" >>, i)
    IN  IF i > Len(st.out) \/ b = 0 THEN st
        ELSE LET c == BodyClose(st.out, b)
             IN  IF c = 0 THEN ScanBodies(st, b + 1)
                 ELSE LET body_content == Strip(Slice(st.out, b + 1, c - 1))
                          fresh == ~MapHas(st.map, body_content)
                          placeholder == IF fresh
                                         THEN Placeholder(BODY, st.body_counter)
                                         ELSE MapGet(st.map, body_content)
                          new_block == << "{", " " >> \o placeholder \o << " ", "}" >>
                      IN  ScanBodies(
                              [out |-> Slice(st.out, 1, b - 1) \o new_block
                                       \o Slice(st.out, c + 1, Len(st.out)),
                               map |-> IF fresh
                                       THEN MapPut(st.map, body_content, placeholder)
                                       ELSE st.map,
                               body_counter |-> IF fresh THEN st.body_counter + 1
                                                ELSE st.body_counter],
                              b + Len(new_block))

\* _action_remove_function_bodies from the scan on: the text it read, the
\* table as it is now, and the body_counter it computed when it started
remove_function_bodies(t, m, rnd, body_counter) ==
    Written(ScanBodies([out |-> t, map |-> m, body_counter |-> body_counter], 1),
            rnd)

(***************************************************************************)
(* Handlers of the main thread, as functions of the text and the table.    *)
(***************************************************************************)
\* one iteration of "for part in parts" of apply_mappings_to_word
MappedPart(m, part) ==
    IF is_obfuscated_identifier(part) \/ IsDigits(part) THEN part
    ELSE IF MapHas(m, part) THEN MapGet(m, part)
    ELSE part

RECURSIVE MappedParts(_, _, _)
MappedParts(m, parts, i) ==
    IF i > Len(parts) THEN << >>
    ELSE MappedPart(m, parts[i]) \o MappedParts(m, parts, i + 1)

\* apply_mappings_to_word: existing entries only, no registration
apply_mappings_to_word(m, word) ==
    IF word \in MapValues(m) THEN word
    ELSE IF MapHas(m, word) THEN MapGet(m, word)
    ELSE IF is_obfuscated_identifier(word) THEN word
    ELSE LET parts == split_camel_case(word)
         IN  IF Len(parts) <= 1 THEN word
             ELSE MappedParts(m, parts, 1)

\* re.sub(identifier_pattern, replace_with_mappings, text_content) from i on
RECURSIVE SubMappings(_, _, _)
SubMappings(t, i, m) ==
    IF i > Len(t) THEN << >>
    ELSE IF IdentStartsAt(t, i)
    THEN LET e == RunEnd(t, i, WordC)
         IN  apply_mappings_to_word(m, Slice(t, i, e)) \o SubMappings(t, e + 1, m)
    ELSE << t[i] >> \o SubMappings(t, i + 1, m)

\* apply_existing_mappings: the text the text area holds afterwards
apply_existing_mappings(t, m) == SubMappings(t, 1, m)

\* str.isalnum() of one character
AlnumC == LetterC \cup DigitC

\* "while start > 0 and line_text[start - 1].isalnum(): start -= 1"
RECURSIVE WordStart(_, _)
WordStart(t, p) ==
    IF p > 1 /\ t[p - 1] \in AlnumC THEN WordStart(t, p - 1) ELSE p

\* get_word_at_click for a click on the character at position p: the run of
\* alphanumerics around it (an underscore separates), << >> for None
get_word_at_click(t, p) ==
    IF t[p] \notin AlnumC THEN << >>
    ELSE Slice(t, WordStart(t, p), RunEnd(t, p, AlnumC))

\* the loop "for original, obfuscated in self.mappings.items()" of
\* on_text_clicked
IsObfuscatedWord(m, word) == \E i \in 1..Len(m) : m[i].obfuscated = word

\* the loop of deobfuscate_word: the first original whose placeholder is word
OriginalOf(m, word) ==
    m[CHOOSE i \in 1..Len(m) :
        /\ m[i].obfuscated = word
        /\ \A j \in 1..(i - 1) : m[j].obfuscated # word].original

\* "for original, obfuscated in self.mappings.items():
\*      text = text.replace(obfuscated, original)" from entry k on
RECURSIVE ReverseFrom(_, _, _)
ReverseFrom(t, m, k) ==
    IF k > Len(m) THEN t
    ELSE ReverseFrom(Replace(t, m[k].obfuscated, m[k].original), m, k + 1)

\* the text as it is, nothing reversed
Unreversed(t, m) == t

\* the reversal loop of deobfuscate_and_show and of clear_mappings
ReverseAll(t, m) == ReverseFrom(t, m, 1)

\* what a handler leaves behind: the text of the text area and the table
Outcome(t, m) == [text |-> t, mappings |-> m]

\* obfuscate_word after save_state, with the category random.choice would
\* return: every occurrence of the word in the text is replaced
obfuscate_word(t, m, word, category) ==
    LET identifier == generate_ai_identifier(m, word, category)
    IN  Outcome(Replace(t, word, identifier), MapPut(m, word, identifier))

\* "if original_word:" in deobfuscate_word: the loop found an entry whose
\* placeholder is the word, and its original is not empty
Reverses(m, obfuscated_word) ==
    IsObfuscatedWord(m, obfuscated_word) /\ OriginalOf(m, obfuscated_word) # << >>

\* deobfuscate_word: the text and the table it leaves
deobfuscate_word(t, m, obfuscated_word) ==
    IF Reverses(m, obfuscated_word)
    THEN Outcome(Replace(t, obfuscated_word, OriginalOf(m, obfuscated_word)),
                 MapDel(m, OriginalOf(m, obfuscated_word)))
    ELSE Outcome(t, m)

(***************************************************************************)
(* The pipeline levels.                                                    *)
(***************************************************************************)
\* OBFUSCATION_LEVELS[level]["actions"]
OBFUSCATION_LEVELS ==
    << << "obfuscate_identifiers" >>,
       << "remove_comments", "remove_empty_lines" >>,
       << "obfuscate_strings", "obfuscate_guids", "obfuscate_paths" >>,
       << "remove_function_bodies" >> >>

\* max(self.OBFUSCATION_LEVELS.keys())
max_level == Len(OBFUSCATION_LEVELS)

\* the increment alone, without the step back to 1
Incremented(level) == level + 1

\* "self.current_obfuscation_level += 1; if it exceeds max_level: = 1"
NextLevel(level) == IF level + 1 > max_level THEN 1 ELSE level + 1

\* the counter an action computes from the table right after it read the
\* text: path_counter, body_counter; the other actions keep none
CounterOf(action, m) ==
    CASE action = "obfuscate_paths"        -> NextNum(m, PATH)
      [] action = "remove_function_bodies" -> NextNum(m, BODY)
      [] OTHER                             -> 0

\* getattr(self, f"_action_{action_name}") from its detection on: the text
\* it read, the table as it is now, the random draws, its counter
RunAction(action, t, m, rnd, counter) ==
    CASE action = "obfuscate_identifiers"  -> obfuscate_identifiers(t, m, rnd)
      [] action = "remove_comments"        -> remove_comments(t, m, rnd)
      [] action = "remove_empty_lines"     -> remove_empty_lines(t, m, rnd)
      [] action = "obfuscate_strings"      -> obfuscate_strings(t, m, rnd)
      [] action = "obfuscate_guids"        -> obfuscate_guids(t, m, rnd)
      [] action = "obfuscate_paths"        -> obfuscate_paths(t, m, rnd, counter)
      [] action = "remove_function_bodies" ->
             remove_function_bodies(t, m, rnd, counter)

\* how many times the action calls random.choice: each call registers one
\* new original found in the text, so the text's length bounds the calls
DrawCount(action, t, m, counter) ==
    LET dry == [i \in 1..Len(t) |-> categories[1]]
    IN  Len(dry) - Len(RunAction(action, t, m, dry, counter).rnd)

\* the results random.choice can return over n calls
Draws(n) == [1..n -> GenericCategories]

(***************************************************************************)
(* remove_all_comments: the REMOVE COMMENTS button deletes the comments.   *)
(***************************************************************************)
VbOpen == <<"'">>

\* re.sub(open + r'.*?' + close, '', text, flags=re.DOTALL) from position i on
RECURSIVE RemoveBlocks(_, _, _, _)
RemoveBlocks(t, i, open, close) ==
    IF i > Len(t) THEN << >>
    ELSE IF StartsWithAt(t, i, open) /\ FindFrom(t, close, i + Len(open)) > 0
    THEN RemoveBlocks(t, FindFrom(t, close, i + Len(open)) + Len(close),
                      open, close)
    ELSE << t[i] >> \o RemoveBlocks(t, i + 1, open, close)

\* re.sub(open + r'[^\n]*', '', text) from position i on
RECURSIVE RemoveLines(_, _, _)
RemoveLines(t, i, open) ==
    IF i > Len(t) THEN << >>
    ELSE IF StartsWithAt(t, i, open)
    THEN RemoveLines(t, LineEnd(t, i + Len(open)) + 1, open)
    ELSE << t[i] >> \o RemoveLines(t, i + 1, open)

\* the seven substitutions, in the order of the code
Uncommented(t) ==
    RemoveLines(
      RemoveBlocks(
        RemoveLines(
          RemoveBlocks(
            RemoveLines(
              RemoveLines(RemoveBlocks(t, 1, BlockOpen, BlockClose), 1, LineOpen),
              1, HashOpen),
            1, HtmlOpen, HtmlClose),
          1, SqlOpen),
        1, LuaOpen, LuaClose),
      1, VbOpen)

\* the loop building cleaned_lines: a line with content is kept as it is, a
\* blank one is kept as '' after a line with content
RECURSIVE KeepLines(_, _, _)
KeepLines(lines, k, cleaned) ==
    IF k > Len(lines) THEN cleaned
    ELSE KeepLines(lines, k + 1,
             IF RStrip(lines[k]) # << >> THEN Append(cleaned, lines[k])
             ELSE IF cleaned # << >> /\ Strip(cleaned[Len(cleaned)]) # << >>
                  THEN Append(cleaned, << >>)
                  ELSE cleaned)

\* the text remove_all_comments writes for the text t it read
CommentsRemoved(t) ==
    CollapseBlank(JoinLines(KeepLines(SplitLines(Uncommented(t), 1), 1, << >>), 1), 1)

(***************************************************************************)
(* The application state.                                                  *)
(***************************************************************************)
VARIABLES
    text_area,                  \* the content of the text widget
    mappings,                   \* self.mappings
    current_obfuscation_level,  \* self.current_obfuscation_level
    is_obfuscating,             \* self.is_obfuscating
    undo_stack,                 \* self.undo_stack: snapshots, oldest first
    clear_button_state,         \* self.clear_button_state
    threads,                    \* the do_obfuscation threads that are alive
    after,                      \* callbacks root.after has scheduled
    clipboard,                  \* the system clipboard
    destroyed,                  \* root.destroy() was called
    budget,                     \* the user actions the run still allows
    last                        \* the step taken last, and the state before it

vars == << text_area, mappings, current_obfuscation_level, is_obfuscating,
           undo_stack, clear_button_state, threads, after, clipboard,
           destroyed, budget, last >>

\* self.max_undo_levels
max_undo_levels == 20

\* the append alone, without the limit
Unlimited(stack, t, m) == Append(stack, [text |-> t, mappings |-> m])

\* save_state: append (text, dict(mappings)), drop the oldest above the limit
save_state(stack, t, m) ==
    LET pushed == Append(stack, Outcome(t, m))
    IN  IF Len(pushed) > max_undo_levels THEN Tail(pushed) ELSE pushed

\* the snapshot at the bottom of the stack
Oldest(stack) == stack[1]

\* "text_content, mappings = self.undo_stack.pop()": the snapshot popped
Popped(stack) == stack[Len(stack)]

\* the record of a step: its name, the state it started from, and the
\* snapshot the latest accepted advance pushed
Step(op) ==
    [op |-> op, level |-> current_obfuscation_level,
     text |-> text_area, mappings |-> mappings,
     saved |-> IF op = "advance" THEN [text |-> text_area, mappings |-> mappings]
               ELSE last.saved]

\* a do_obfuscation thread: where it is, the actions it still has to run,
\* the text_content and the counter of the action it is in
Thread(pc, actions, text_content, counter) ==
    [pc |-> pc, actions |-> actions, text_content |-> text_content,
     counter |-> counter]

\* the threads with thread i replaced, or removed when it has ended
WithThread(i, th) == [threads EXCEPT ![i] = th]
WithoutThread(i) == Slice(threads, 1, i - 1) \o Slice(threads, i + 1, Len(threads))

(***************************************************************************)
(* obfuscate_all and its background thread. A thread takes one step per    *)
(* access to the shared state: it reads the level, and for each action of  *)
(* the level it reads the text area, runs the detector on the table, and   *)
(* writes the text area. Handlers of the main thread run between steps.    *)
(***************************************************************************)
\* a handler without the guard
Unguarded == FALSE

\* "if self.is_obfuscating: return"
Rejects == is_obfuscating

\* a reset that leaves the level where it is
LevelKept == current_obfuscation_level

\* reset_obfuscation_level: "self.current_obfuscation_level = 0"
reset_obfuscation_level == 0

\* obfuscate_all: the click on the AUTO-OBFUSCATE button
obfuscate_all ==
    /\ ~destroyed
    /\ IF Rejects
       THEN /\ last' = Step("advance_rejected")
            /\ UNCHANGED << text_area, mappings, current_obfuscation_level,
                            is_obfuscating, undo_stack, clear_button_state,
                            threads, after, clipboard, destroyed, budget >>
       ELSE /\ budget.advance > 0
            /\ is_obfuscating' = TRUE
            /\ current_obfuscation_level' = NextLevel(current_obfuscation_level)
            /\ undo_stack' = save_state(undo_stack, text_area, mappings)
            /\ threads' = Append(threads, Thread("start", << >>, << >>, 0))
            /\ budget' = [budget EXCEPT !.advance = @ - 1]
            /\ last' = Step("advance")
            /\ UNCHANGED << text_area, mappings, clear_button_state, after,
                            clipboard, destroyed >>

\* do_obfuscation looks up OBFUSCATION_LEVELS[self.current_obfuscation_level];
\* a level that is no key raises KeyError and the thread ends there
LookupLevel(i) ==
    /\ ~destroyed
    /\ threads[i].pc = "start"
    /\ threads' =
         IF current_obfuscation_level \in 1..max_level
         THEN WithThread(i, Thread("read",
                  OBFUSCATION_LEVELS[current_obfuscation_level], << >>, 0))
         ELSE WithoutThread(i)
    /\ last' = Step("thread")
    /\ UNCHANGED << text_area, mappings, current_obfuscation_level,
                    is_obfuscating, undo_stack, clear_button_state, after,
                    clipboard, destroyed, budget >>

\* an action starts: text_content = self.text_area.get(1.0, "end-1c"), and
\* the counter it computes from the table
ReadText(i) ==
    /\ ~destroyed
    /\ threads[i].pc = "read"
    /\ threads' = WithThread(i,
           Thread("compute", threads[i].actions, text_area,
                  CounterOf(Head(threads[i].actions), mappings)))
    /\ last' = Step("thread")
    /\ UNCHANGED << text_area, mappings, current_obfuscation_level,
                    is_obfuscating, undo_stack, clear_button_state, after,
                    clipboard, destroyed, budget >>

\* the thread is through with an action: the next action of the level, or
\* self.root.after(0, self.on_obfuscation_complete) and the thread ends
NextAction(i) ==
    IF Len(threads[i].actions) > 1
    THEN /\ threads' = WithThread(i,
                Thread("read", Tail(threads[i].actions), << >>, 0))
         /\ after' = after
    ELSE /\ threads' = WithoutThread(i)
         /\ after' = [after EXCEPT !.complete = @ + 1]

\* the pass returned r: the table holds what it registered, and an action
\* that found nothing returns without writing
Detected(i, r) ==
    /\ mappings' = r.map
    /\ IF r.write
       THEN /\ threads' = WithThread(i,
                   Thread("write", threads[i].actions, r.out, threads[i].counter))
            /\ after' = after
       ELSE NextAction(i)

\* the action detects and registers on the table as it is now
Detect(i) ==
    /\ ~destroyed
    /\ threads[i].pc = "compute"
    /\ LET th == threads[i]
           action == Head(th.actions)
       IN  \E rnd \in Draws(DrawCount(action, th.text_content, mappings,
                                      th.counter)) :
             Detected(i, RunAction(action, th.text_content, mappings, rnd,
                                   th.counter))
    /\ last' = Step("thread")
    /\ UNCHANGED << text_area, current_obfuscation_level, is_obfuscating,
                    undo_stack, clear_button_state, clipboard, destroyed,
                    budget >>

\* self.text_area.delete(1.0, tk.END); self.text_area.insert(1.0, text_content)
WriteText(i) ==
    /\ ~destroyed
    /\ threads[i].pc = "write"
    /\ text_area' = threads[i].text_content
    /\ NextAction(i)
    /\ last' = Step("thread")
    /\ UNCHANGED << mappings, current_obfuscation_level, is_obfuscating,
                    undo_stack, clear_button_state, clipboard, destroyed,
                    budget >>

\* on_obfuscation_complete, run by the main loop
on_obfuscation_complete ==
    /\ ~destroyed
    /\ after.complete > 0
    /\ is_obfuscating' = FALSE
    /\ after' = [after EXCEPT !.complete = @ - 1]
    /\ last' = Step("complete")
    /\ UNCHANGED << text_area, mappings, current_obfuscation_level,
                    undo_stack, clear_button_state, threads, clipboard,
                    destroyed, budget >>

(***************************************************************************)
(* The handlers of the main thread. Each runs to its end in one step.      *)
(***************************************************************************)
\* one user action less in the budget
Spend == budget' = [budget EXCEPT !.ops = @ - 1]

\* load_clipboard (Ctrl+V, the LOAD button): pyperclip.paste() returns c
load_clipboard(c) ==
    /\ ~destroyed
    /\ budget.ops > 0
    /\ Spend
    /\ clipboard' = c
    /\ IF c # << >>
       THEN /\ undo_stack' = save_state(undo_stack, text_area, mappings)
            /\ text_area' = apply_existing_mappings(c, mappings)
            /\ current_obfuscation_level' = reset_obfuscation_level
            /\ last' = Step("load")
       ELSE /\ last' = Step("load_empty")
            /\ UNCHANGED << undo_stack, text_area, current_obfuscation_level >>
    /\ UNCHANGED << mappings, is_obfuscating, clear_button_state, threads,
                    after, destroyed >>

\* on_text_clicked for a click on the character at position p: a placeholder
\* of the table is deobfuscated, any other word is obfuscated
on_text_clicked(p) ==
    /\ ~destroyed
    /\ budget.ops > 0
    /\ Spend
    /\ LET word == get_word_at_click(text_area, p)
           placeholder == IsObfuscatedWord(mappings, word)
           missing == word # << >> /\ ~placeholder /\ ~MapHas(mappings, word)
       IN  \E rnd \in Draws(IF missing THEN 1 ELSE 0) :
             LET out ==
                   IF word = << >> THEN Outcome(text_area, mappings)
                   ELSE IF ~placeholder
                   THEN obfuscate_word(text_area, mappings, word,
                                       IF missing THEN rnd[1] ELSE categories[1])
                   ELSE deobfuscate_word(text_area, mappings, word)
                 saved == \/ word # << >> /\ ~placeholder
                          \/ Reverses(mappings, word)
             IN  /\ text_area' = out.text
                 /\ mappings' = out.mappings
                 /\ undo_stack' = IF saved
                                  THEN save_state(undo_stack, text_area, mappings)
                                  ELSE undo_stack
                 /\ last' = Step(IF word = << >> THEN "click_nothing"
                                 ELSE IF placeholder THEN "deobfuscate_word"
                                 ELSE "obfuscate_word")
    /\ UNCHANGED << current_obfuscation_level, is_obfuscating,
                    clear_button_state, threads, after, clipboard, destroyed >>

\* undo (Ctrl+Z)
undo ==
    /\ ~destroyed
    /\ budget.ops > 0
    /\ Spend
    /\ IF undo_stack = << >>
       THEN /\ last' = Step("undo_empty")
            /\ UNCHANGED << text_area, mappings, undo_stack >>
       ELSE /\ mappings' = Popped(undo_stack).mappings
            /\ text_area' = Popped(undo_stack).text
            /\ undo_stack' = Slice(undo_stack, 1, Len(undo_stack) - 1)
            /\ last' = Step("undo")
    /\ UNCHANGED << current_obfuscation_level, is_obfuscating,
                    clear_button_state, threads, after, clipboard, destroyed >>

\* deobfuscate_and_show: the DEOBFUSCATE button
deobfuscate_and_show ==
    /\ ~destroyed
    /\ budget.ops > 0
    /\ Spend
    /\ undo_stack' = save_state(undo_stack, text_area, mappings)
    /\ text_area' = ReverseAll(text_area, mappings)
    /\ clipboard' = IF ReverseAll(text_area, mappings) # << >>
                    THEN ReverseAll(text_area, mappings)
                    ELSE clipboard
    /\ current_obfuscation_level' = reset_obfuscation_level
    /\ last' = Step("deobfuscate_and_show")
    /\ UNCHANGED << mappings, is_obfuscating, clear_button_state, threads,
                    after, destroyed >>

\* the pass of auto_obfuscate_strings returned r: the table holds what it
\* registered, and the text is written unless nothing was found
StringsReplaced(r) ==
    /\ mappings' = r.map
    /\ text_area' = IF r.write THEN r.out ELSE text_area

\* auto_obfuscate_strings: the OBFUSCATE STRINGS button
auto_obfuscate_strings ==
    /\ ~destroyed
    /\ budget.ops > 0
    /\ Spend
    /\ undo_stack' = save_state(undo_stack, text_area, mappings)
    /\ \E rnd \in Draws(DrawCount("obfuscate_strings", text_area, mappings, 0)) :
           StringsReplaced(obfuscate_strings(text_area, mappings, rnd))
    /\ last' = Step("auto_obfuscate_strings")
    /\ UNCHANGED << current_obfuscation_level, is_obfuscating,
                    clear_button_state, threads, after, clipboard, destroyed >>

\* remove_all_comments: the REMOVE COMMENTS button
remove_all_comments ==
    /\ ~destroyed
    /\ budget.ops > 0
    /\ Spend
    /\ undo_stack' = save_state(undo_stack, text_area, mappings)
    /\ text_area' = CommentsRemoved(text_area)
    /\ last' = Step("remove_all_comments")
    /\ UNCHANGED << mappings, current_obfuscation_level, is_obfuscating,
                    clear_button_state, threads, after, clipboard, destroyed >>

\* clear_mappings_2state: the CLEAR button, then CONFIRM?, then CLOSE;
\* the second click runs clear_mappings
clear_mappings_2state ==
    /\ ~destroyed
    /\ budget.ops > 0
    /\ Spend
    /\ IF clear_button_state = 0
       THEN /\ clear_button_state' = 1
            /\ after' = [after EXCEPT !.reset = @ + 1]
            /\ last' = Step("clear_button")
            /\ UNCHANGED << text_area, mappings, undo_stack,
                            current_obfuscation_level, destroyed >>
       ELSE IF clear_button_state = 1
       THEN /\ undo_stack' = save_state(undo_stack, text_area, mappings)
            /\ text_area' = ReverseAll(text_area, mappings)
            /\ mappings' = << >>
            /\ current_obfuscation_level' = reset_obfuscation_level
            /\ clear_button_state' = 2
            /\ after' = [after EXCEPT !.reset = @ + 1]
            /\ last' = Step("clear_mappings")
            /\ UNCHANGED destroyed
       ELSE /\ destroyed' = TRUE
            /\ last' = Step("close")
            /\ UNCHANGED << text_area, mappings, undo_stack,
                            current_obfuscation_level, clear_button_state,
                            after >>
    /\ UNCHANGED << is_obfuscating, threads, clipboard >>

\* reset_clear_button, run by the main loop 3 seconds after a click
reset_clear_button ==
    /\ ~destroyed
    /\ after.reset > 0
    /\ clear_button_state' = 0
    /\ after' = [after EXCEPT !.reset = @ - 1]
    /\ last' = Step("reset_clear_button")
    /\ UNCHANGED << text_area, mappings, current_obfuscation_level,
                    is_obfuscating, undo_stack, threads, clipboard, destroyed,
                    budget >>

(***************************************************************************)
(* Runs. The application starts with the table load_mappings read from the *)
(* mappings file and loads the clipboard (__init__ calls load_clipboard).  *)
(***************************************************************************)
\* the state __init__ leaves, for a clipboard c, a persisted table pm and a
\* budget b of user actions
Start(c, pm, b) ==
    /\ clipboard = c
    /\ mappings = pm
    /\ text_area = IF c = << >> THEN << >> ELSE apply_existing_mappings(c, pm)
    /\ undo_stack = IF c = << >> THEN << >> ELSE save_state(<< >>, << >>, pm)
    /\ current_obfuscation_level = 0
    /\ is_obfuscating = FALSE
    /\ clear_button_state = 0
    /\ threads = << >>
    /\ after = [complete |-> 0, reset |-> 0]
    /\ destroyed = FALSE
    /\ budget = b
    /\ last = [op |-> "init", level |-> 0, text |-> << >>, mappings |-> pm,
               saved |-> [text |-> << >>, mappings |-> pm]]

\* how many advances and how many other user actions a run may take
MaxAdvances == 3
MaxOps == 2

\* a text pasted back that still holds the placeholder of a persisted path
PathText == <<"P", "A", "T", "H", "0", "0", "1", " ", ".", "/", "-">>
PersistedPath == << Entry(<< ".", "/", "." >>, Placeholder(PATH, 1)) >>

\* what the clipboard may hold, and what the mappings file may hold
Clipboards == { << >>, PathText }
PersistedTables == { << >>, PersistedPath }

Init ==
    \E c \in Clipboards, pm \in PersistedTables :
        Start(c, pm, [advance |-> MaxAdvances, ops |-> MaxOps])

Worker ==
    \E i \in 1..Len(threads) :
        LookupLevel(i) \/ ReadText(i) \/ Detect(i) \/ WriteText(i)

Next ==
    \/ obfuscate_all
    \/ Worker
    \/ on_obfuscation_complete
    \/ \E c \in Clipboards \cup {clipboard} : load_clipboard(c)
    \/ \E p \in 1..Len(text_area) : on_text_clicked(p)
    \/ undo
    \/ deobfuscate_and_show
    \/ clear_mappings_2state
    \/ reset_clear_button

Spec == Init /\ [][Next]_vars

(***************************************************************************)
(* The pipeline alone: a text loaded on an empty table, the user only      *)
(* advances the pipeline and reverses.                                     *)
(***************************************************************************)
PipelineAdvances == 5
PipelineOps == 1

\* a comment, a compound identifier, an identifier next to a GUID, a
\* function with a body
CommentText == <<"/", "/", "a", " ", "i", "f">>
CompoundText == <<"g", "e", "t", "A", "I", "d">>
GuidText == <<"x", " ", "3", "F", "2", "5", "0", "4", "E", "0", "-", "4", "F", "8", "9", "-", "1", "1", "D", "3", "-", "9", "A", "0", "C", "-", "0", "3", "0", "5", "E", "8", "2", "C", "3", "3", "0", "1">>
BodyText == <<"g", "e", "t", "(", ")", "{", "x", "}">>
PipelineTexts == { CommentText, CompoundText, GuidText, BodyText }

InitPipeline ==
    \E c \in PipelineTexts :
        Start(c, << >>, [advance |-> PipelineAdvances, ops |-> PipelineOps])

NextPipeline ==
    \/ obfuscate_all
    \/ Worker
    \/ on_obfuscation_complete
    \/ deobfuscate_and_show

SpecPipeline == InitPipeline /\ [][NextPipeline]_vars

\* the widget and the table after one action returned r
Ran(st, r) ==
    [text |-> IF r.write THEN r.out ELSE st.text,
     mappings |-> r.map, rnd |-> r.rnd]

\* the "for action_name in level_config["actions"]" loop of do_obfuscation
\* when nothing else runs in between, on [text, mappings, rnd]
RECURSIVE RunActions(_, _, _)
RunActions(actions, k, st) ==
    IF k > Len(actions) THEN st
    ELSE RunActions(actions, k + 1,
             Ran(st, RunAction(actions[k], st.text, st.mappings, st.rnd,
                               CounterOf(actions[k], st.mappings))))

\* what the loop leaves in the widget and in the table
Settled(st) == Outcome(st.text, st.mappings)

\* do_obfuscation for a level, run to its end on a text and a table
do_obfuscation(level, t, m, rnd) ==
    Settled(RunActions(OBFUSCATION_LEVELS[level], 1,
                       [text |-> t, mappings |-> m, rnd |-> rnd]))

\* how many times that run calls random.choice
LevelDrawCount(level, t, m) ==
    LET dry == [i \in 1..Len(t) |-> categories[1]]
    IN  Len(dry) - Len(RunActions(OBFUSCATION_LEVELS[level], 1,
                           [text |-> t, mappings |-> m, rnd |-> dry]).rnd)

(***************************************************************************)
(* Properties of the pipeline alone (SpecPipeline).                        *)
(***************************************************************************)
\* no thread runs and the completion callback has run
Quiescent == threads = << >> /\ ~is_obfuscating

\* the text and the table are what accepted advances alone produced
AdvancesOnly == Quiescent /\ budget.ops = PipelineOps

\* C1: round trip. After deobfuscate_and_show on a text that advances
\* produced from a text loaded with an empty table, no placeholder of an
\* entry of the table is left in the text.
C1_RoundTrip ==
    (last.op = "deobfuscate_and_show" /\ Quiescent) =>
        \A i \in 1..Len(mappings) : ~Contains(text_area, mappings[i].obfuscated)

\* a level has just run to its end on the output of the advances before it
LevelDone ==
    /\ last.op = "complete"
    /\ AdvancesOnly
    /\ current_obfuscation_level \in 1..max_level

\* C2: idempotence. Running the actions of level L again on the text and the
\* table that L just left gives the same text and registers nothing,
\* whatever random.choice returns.
C2_Idempotent ==
    LevelDone =>
        \A rnd \in Draws(LevelDrawCount(current_obfuscation_level,
                                        text_area, mappings)) :
            do_obfuscation(current_obfuscation_level, text_area, mappings, rnd)
                = Outcome(text_area, mappings)

\* C4: no placeholder is a substring of a different placeholder, for the
\* placeholders the engine generated into the table.
C4_NoPlaceholderInside ==
    \A i, j \in 1..Len(mappings) :
        i # j => ~Contains(mappings[j].obfuscated, mappings[i].obfuscated)

\* the orders in which n entries can be processed
Orders(n) == { f \in [1..n -> 1..n] : \A i, j \in 1..n : f[i] = f[j] => i = j }

\* one replace per entry, the entries taken in the given order
RECURSIVE ReverseIn(_, _, _, _)
ReverseIn(t, m, order, k) ==
    IF k > Len(m) THEN t
    ELSE ReverseIn(Replace(t, m[order[k]].obfuscated, m[order[k]].original),
                   m, order, k + 1)

\* C5: the reversal is order-independent. On a text and a table that
\* advances produced, replacing each placeholder by its original gives the
\* same text in every order of the entries.
C5_OrderIndependent ==
    AdvancesOnly =>
        \A order \in Orders(Len(mappings)) :
            ReverseIn(text_area, mappings, order, 1)
                = ReverseAll(text_area, mappings)

\* the accepted advances made so far
Advanced == PipelineAdvances - budget.advance

C3_PlaceholdersUnique ==
    \A i, j \in 1..Len(mappings) :
        mappings[i].obfuscated = mappings[j].obfuscated => i = j

\* the steps that reset the level: a load of a non-empty text, the full
\* reversal, the full clear
ResetSteps == { "load", "deobfuscate_and_show", "clear_mappings" }

\* C7: the level changes only by an accepted advance, one step of the cycle,
\* or by a reset to 0; the load of a non-empty text, the full reversal and
\* the full clear reset it, and every other step (undo, a click on a word,
\* a rejected advance, the thread) leaves it as it is.
C7_LevelFrame ==
    [][/\ last'.op = "advance" =>
            current_obfuscation_level' =
                IF current_obfuscation_level = 4 THEN 1
                ELSE current_obfuscation_level + 1
       /\ last'.op \in ResetSteps => current_obfuscation_level' = 0
       /\ last'.op \notin ResetSteps \cup { "advance" } =>
            current_obfuscation_level' = current_obfuscation_level]_vars

\* an undo that changed the table ran at a level above 0 and the level stayed
C7_UndoKeepsLevel ==
    /\ last.op = "undo"
    /\ last.mappings # mappings
    /\ last.level >= 1
    /\ current_obfuscation_level = last.level

\* C8: single flight. At most one thread is alive, an advance is accepted
\* only while is_obfuscating is false, and an advance made while it is true
\* starts no thread and leaves the level, the undo stack, the text and the
\* table as they are.
C8_SingleFlight ==
    /\ [](Len(threads) <= 1)
    /\ [][/\ last'.op = "advance" => ~is_obfuscating
          /\ last'.op = "advance_rejected" =>
               /\ is_obfuscating
               /\ UNCHANGED << threads, current_obfuscation_level, undo_stack,
                               text_area, mappings, is_obfuscating >>]_vars

\* an advance was rejected while a thread was between its read and its write
C8_RejectedWhileRunning ==
    /\ last.op = "advance_rejected"
    /\ Len(threads) = 1
    /\ threads[1].pc = "compute"

\* the handlers of the main thread that write the text or the table
Mutators ==
    { "load", "obfuscate_word", "deobfuscate_word", "undo",
      "deobfuscate_and_show", "clear_mappings" }

\* some thread has read the text and has not yet written its result back
Working == \E i \in 1..Len(threads) : threads[i].pc \in { "compute", "write" }

\* C9: mutual exclusion of writers. While a thread is between reading the
\* text and writing its result back, no other mutating operation runs and
\* changes the text or the table.
C9_WritersExcluded ==
    [][(Working /\ last'.op \in Mutators) =>
           UNCHANGED << text_area, mappings >>]_vars

\* C10: undo restores the state before. With a non-empty undo stack, undo
\* pops the snapshot pushed last, and then the text is that snapshot's text
\* and the table is that snapshot's table, nothing merged; the stack is left
\* with the snapshots below, so undos restore in reverse order of the pushes.
C10_UndoRestores ==
    [][last'.op = "undo" =>
          /\ undo_stack # << >>
          /\ text_area' = undo_stack[Len(undo_stack)].text
          /\ mappings' = undo_stack[Len(undo_stack)].mappings
          /\ undo_stack' = SubSeq(undo_stack, 1, Len(undo_stack) - 1)]_vars

\* an undo out of a stack of two snapshots brought back another text and
\* another table
C10_UndoRestored ==
    /\ last.op = "undo"
    /\ Len(undo_stack) >= 1
    /\ last.text # text_area
    /\ last.mappings # mappings

(***************************************************************************)
(* The undo history at its limit: a run of operations that each push a     *)
(* snapshot, followed by a run of undos.                                   *)
(***************************************************************************)
MaxPushes == 25
UndoTries == 21

UndoText == <<"i", "f">>

InitUndo ==
    \E c \in { << >>, UndoText } :
        Start(c, << >>, [advance |-> 0, ops |-> MaxPushes + UndoTries])

\* the run is still in its pushes
Pushing == budget.ops > UndoTries

NextUndo ==
    \/ Pushing /\ load_clipboard(UndoText)
    \/ Pushing /\ deobfuscate_and_show
    \/ ~Pushing /\ undo

SpecUndo == InitUndo /\ [][NextUndo]_vars

\* the undos tried so far
Undone == UndoTries - budget.ops

\* C11: undo bound. The undo stack never holds more than 20 snapshots; a
\* push onto a stack of 20 drops the oldest and keeps the others in order
\* below the new one; after 25 pushes the first 20 undos restore a snapshot
\* and the 21st finds the stack empty.
C11_UndoBound ==
    /\ [](Len(undo_stack) <= 20)
    /\ [](~Pushing =>
            /\ Undone \in 1..20 => last.op = "undo"
            /\ Undone > 20 => last.op = "undo_empty" /\ undo_stack = << >>)
    /\ [][(last'.op \in { "load", "deobfuscate_and_show" }
             /\ Len(undo_stack) = 20) =>
            undo_stack' = Tail(undo_stack)
                \o << [text |-> text_area, mappings |-> mappings] >>]_vars

\* the 21st undo after the pushes found the stack empty
C11_TwentyFirstUndo ==
    /\ ~Pushing
    /\ Undone = 21
    /\ last.op = "undo_empty"
    /\ undo_stack = << >>

(***************************************************************************)
(* Every handler: a text with a string and a comment loaded on an empty    *)
(* table, the pipeline and every binding and button of the window.         *)
(***************************************************************************)
HandlerAdvances == 1
HandlerOps == 2

HandlerText == <<"\"", "x", "\"", "#", "x">>

InitHandlers ==
    Start(HandlerText, << >>, [advance |-> HandlerAdvances, ops |-> HandlerOps])

NextHandlers ==
    \/ obfuscate_all
    \/ Worker
    \/ on_obfuscation_complete
    \/ \E c \in { << >>, clipboard } : load_clipboard(c)
    \/ \E p \in 1..Len(text_area) : on_text_clicked(p)
    \/ undo
    \/ deobfuscate_and_show
    \/ clear_mappings_2state
    \/ reset_clear_button
    \/ auto_obfuscate_strings
    \/ remove_all_comments

SpecHandlers == InitHandlers /\ [][NextHandlers]_vars

\* the operations that save the state before they change it
Savers ==
    { "advance", "load", "obfuscate_word", "deobfuscate_word",
      "deobfuscate_and_show", "clear_mappings", "auto_obfuscate_strings",
      "remove_all_comments" }

\* thread i is in the first action of its level and has registered nothing
\* and written nothing yet
InFirstAction(i) ==
    /\ threads[i].pc = "compute"
    /\ \E l \in 1..max_level : threads[i].actions = OBFUSCATION_LEVELS[l]

\* C12: one snapshot per mutating operation. Each of the handlers that
\* change the text or the table pushes exactly one snapshot and that
\* snapshot holds the text and the table as they were before the handler
\* changed anything; for an accepted advance the first change is the first
\* registration of its thread, and the snapshot the advance pushed holds the
\* text and the table of that moment.
C12_SnapshotBeforeChange ==
    [][/\ (last'.op \in Savers
             /\ << text_area, mappings >>' # << text_area, mappings >>) =>
            undo_stack' = Append(undo_stack,
                                 [text |-> text_area, mappings |-> mappings])
       /\ \A i \in 1..Len(threads) :
            (InFirstAction(i) /\ last'.op = "thread" /\ mappings' # mappings) =>
                last.saved = [text |-> text_area, mappings |-> mappings]]_vars

\* the part of C12 about the handlers of the main thread alone
C12_HandlersSave ==
    [][(last'.op \in Savers \ { "advance" }
          /\ << text_area, mappings >>' # << text_area, mappings >>) =>
         undo_stack' = Append(undo_stack,
                              [text |-> text_area, mappings |-> mappings])]_vars

(***************************************************************************)
(* Clicks: a text of two words, one of them a placeholder pasted back,     *)
(* loaded on an empty table; the user clicks words and placeholders, loads *)
(* the clipboard again and undoes.                                         *)
(***************************************************************************)
ClickOps == 3

ClickText == <<"G", "U", "I", "D", "0", "0", "1", " ", "a">>

InitClicks == Start(ClickText, << >>, [advance |-> 0, ops |-> ClickOps])

NextClicks ==
    \/ \E p \in 1..Len(text_area) : on_text_clicked(p)
    \/ load_clipboard(clipboard)
    \/ undo

SpecClicks == InitClicks /\ [][NextClicks]_vars

\* the table without its entry k
Without(m, k) == SubSeq(m, 1, k - 1) \o SubSeq(m, k + 1, Len(m))

\* the first placeholder of each category
FirstPlaceholders == { Placeholder(c, 1) : c \in GenericCategories }

\* C13: frame of the single-word deobfuscation. Deobfuscating a word p that
\* is the placeholder of an entry removes that entry and leaves every other
\* entry as it was, in its place; for a p that is the placeholder of no
\* entry, deobfuscate_word changes neither the text nor the table and saves
\* no snapshot.
C13_ReverseOneFrame ==
    /\ [](\A p \in FirstPlaceholders :
            ~IsObfuscatedWord(mappings, p) =>
                /\ deobfuscate_word(text_area, mappings, p)
                       = [text |-> text_area, mappings |-> mappings]
                /\ ~Reverses(mappings, p))
    /\ [][last'.op = "deobfuscate_word" =>
            \E pos \in 1..Len(text_area), k \in 1..Len(mappings) :
                /\ mappings[k].obfuscated = get_word_at_click(text_area, pos)
                /\ mappings' = Without(mappings, k)]_vars

\* a placeholder was deobfuscated and the other entry of the table is left
C13_OneOfTwoRemoved ==
    /\ last.op = "deobfuscate_word"
    /\ Len(last.mappings) = 2
    /\ Len(mappings) = 1

\* what deobfuscate_and_show leaves in the text area for the first n entries
\* of the table: the entries before are reversed first, then entry n
RECURSIVE Reversed(_, _, _)
Reversed(t, m, n) ==
    IF n = 0 THEN t
    ELSE Replace(Reversed(t, m, n - 1), m[n].obfuscated, m[n].original)

\* C14: clear is a full reversal. clear_mappings leaves in the text area the
\* text deobfuscate_and_show would leave from the same state, leaves the
\* table empty and the level at 0.
C14_ClearReverses ==
    [][last'.op = "clear_mappings" =>
          /\ text_area' = Reversed(text_area, mappings, Len(mappings))
          /\ mappings' = << >>
          /\ current_obfuscation_level' = 0]_vars

\* clear_mappings ran on a table with entries and changed the text
C14_ClearedText ==
    /\ last.op = "clear_mappings"
    /\ last.mappings # << >>
    /\ last.text # text_area
    /\ last.level # 0

\* the words of the text from position i on
RECURSIVE Tokens(_, _)
Tokens(t, i) ==
    IF i > Len(t) THEN << >>
    ELSE IF t[i] \in WordC
    THEN << Slice(t, i, RunEnd(t, i, WordC)) >> \o Tokens(t, RunEnd(t, i, WordC) + 1)
    ELSE Tokens(t, i + 1)

\* how many of the words are w
Count(words, w) == Cardinality({k \in 1..Len(words) : words[k] = w})

\* the words of the text that have the shape of a placeholder and are the
\* placeholder of no entry
Orphans(t, m) ==
    {w \in {Tokens(t, 1)[k] : k \in 1..Len(Tokens(t, 1))} :
        is_obfuscated_identifier(w) /\ ~IsObfuscatedWord(m, w)}

\* C15: missing mapping on reversal. A word of the text that has the shape
\* of a placeholder and is the placeholder of no entry is left as it is by
\* deobfuscate_and_show, by clear_mappings and by the deobfuscation of
\* another placeholder: every occurrence of it is still in the text.
C15_OrphanUntouched ==
    [][last'.op \in { "deobfuscate_and_show", "clear_mappings", "deobfuscate_word" } =>
          \A w \in Orphans(text_area, mappings) :
              Count(Tokens(text_area', 1), w) >= Count(Tokens(text_area, 1), w)]_vars

\* the originals the step registered
Registered == {mappings'[k].original : k \in (Len(mappings) + 1)..Len(mappings')}

\* C16: placeholders are never registered. No detector registers a span
\* whose text is the placeholder of an existing entry; in every state
\* reached by advances no original of the table is a placeholder of the
\* table and no original is empty.
C16_NoPlaceholderOriginal ==
    /\ [](\A i \in 1..Len(mappings) :
            /\ mappings[i].original # << >>
            /\ ~IsObfuscatedWord(mappings, mappings[i].original))
    /\ [][last'.op = "thread" =>
            \A o \in Registered : ~IsObfuscatedWord(mappings, o)]_vars

\* the word is one identifier of a loaded text
IsIdentifier(word) ==
    /\ word # << >>
    /\ word[1] \in LetterC \cup {"_"}
    /\ \A k \in 1..Len(word) : word[k] \in WordC

\* a request for an original that has an entry: generate_ai_identifier
\* returns the placeholder of the entry whatever the category drawn, a
\* registration and a single-word obfuscation leave the table as it is, and
\* apply_mappings_to_word returns the placeholder
SamePlaceholder ==
    \A i \in 1..Len(mappings), c \in GenericCategories :
        /\ generate_ai_identifier(mappings, mappings[i].original, c)
               = mappings[i].obfuscated
        /\ Register(mappings, << c >>, mappings[i].original).map = mappings
        /\ obfuscate_word(text_area, mappings, mappings[i].original, c).mappings
               = mappings
        /\ IsIdentifier(mappings[i].original) =>
               apply_mappings_to_word(mappings, mappings[i].original)
                   = mappings[i].obfuscated

\* C17: stable registration. Every request for an original that has an
\* entry yields the placeholder of that entry and adds no entry; an original
\* that keeps its entry over a step keeps its placeholder, and loading a
\* text adds no entry.
C17_StableRegistration ==
    /\ []SamePlaceholder
    /\ [][/\ \A i \in 1..Len(mappings) :
             MapHas(mappings', mappings[i].original) =>
                 MapGet(mappings', mappings[i].original) = mappings[i].obfuscated
          /\ last'.op = "load" => mappings' = mappings]_vars

\* the entries the last step removed from the table
Removed ==
    {last.mappings[j] : j \in {i \in 1..Len(last.mappings) :
                                 ~MapHas(mappings, last.mappings[i].original)}}

\* the entries the step adds to the table
Added ==
    {mappings'[k] : k \in {i \in 1..Len(mappings') :
                             ~MapHas(mappings, mappings'[i].original)}}

\* C18: no placeholder reuse. After deobfuscate_word has removed an entry,
\* a registration of another original is not given the placeholder of the
\* removed entry.
C18_NoReuse ==
    [][(last.op = "deobfuscate_word" /\ last'.op = "obfuscate_word") =>
          \A old \in Removed, new \in Added :
              new.original # old.original => new.obfuscated # old.obfuscated]_vars

\* compound identifiers of known and unknown fragments: one unknown
\* fragment, a run of two, two runs
CompoundWords ==
    { <<"g", "e", "t", "U", "s", "e", "r", "I", "d">>,
      <<"g", "e", "t", "Q", "z", "X", "q", "I", "d">>,
      <<"g", "e", "t", "Q", "z", "I", "d", "X", "q">> }

\* the last fragment of the run of unknown fragments that starts at i
RECURSIVE UnknownRunEnd(_, _)
UnknownRunEnd(parts, i) ==
    IF i + 1 <= Len(parts) /\ ~IsKnown(parts[i + 1])
    THEN UnknownRunEnd(parts, i + 1)
    ELSE i

\* the fragments i..j concatenated
RECURSIVE Concatenated(_, _, _)
Concatenated(parts, i, j) ==
    IF i > j THEN << >> ELSE parts[i] \o Concatenated(parts, i + 1, j)

\* the fragments from i on with every known fragment kept and every maximal
\* run of unknown fragments replaced by the placeholder table m has for it
RECURSIVE Preserved(_, _, _)
Preserved(parts, i, m) ==
    IF i > Len(parts) THEN << >>
    ELSE IF IsKnown(parts[i]) THEN parts[i] \o Preserved(parts, i + 1, m)
    ELSE MapGet(m, Concatenated(parts, i, UnknownRunEnd(parts, i)))
             \o Preserved(parts, UnknownRunEnd(parts, i) + 1, m)

\* the maximal runs of unknown fragments, concatenated
UnknownRuns(parts) ==
    {Concatenated(parts, i, UnknownRunEnd(parts, i)) :
        i \in {k \in 1..Len(parts) :
                 ~IsKnown(parts[k]) /\ (k = 1 \/ IsKnown(parts[k - 1]))}}

\* the detector's result r for the fragments parts on table m: the known
\* fragments in place, one placeholder per run, one entry per run, the
\* entries of m as they were
KnownKept(parts, m, r) ==
    /\ \A run \in UnknownRuns(parts) : MapHas(r.map, run)
    /\ r.res = Preserved(parts, 1, r.map)
    /\ {r.map[k].original : k \in 1..Len(r.map)}
           = {m[k].original : k \in 1..Len(m)} \cup UnknownRuns(parts)
    /\ Len(r.map) = Len(m) + Cardinality({run \in UnknownRuns(parts) : ~MapHas(m, run)})
    /\ SubSeq(r.map, 1, Len(m)) = m

\* C19: known-word preservation. For a compound identifier of known and
\* unknown fragments the identifier detector keeps every known fragment
\* where it is and replaces every maximal run of unknown fragments by one
\* placeholder, registered for the concatenation of the run.
C19_KnownPreserved ==
    \A word \in CompoundWords :
        KnownKept(split_camel_case(word), mappings,
                  auto_obfuscate_word(mappings, << ID, PERSON >>, word))

\* the detector has rewritten getAId of the loaded text to get, the
\* placeholder of A, Id
C19_CompoundRewritten ==
    \E c \in GenericCategories :
        /\ mappings = << Entry(<< "A" >>, Placeholder(c, 1)) >>
        /\ text_area = <<"g", "e", "t">> \o Placeholder(c, 1) \o <<"I", "d">>

\* the seven comment styles: the delimiter that opens and the one that closes
Styles ==
    { [open |-> BlockOpen, close |-> BlockClose],
      [open |-> HtmlOpen, close |-> HtmlClose],
      [open |-> LuaOpen, close |-> LuaClose],
      [open |-> XmlDocOpen, close |-> << >>],
      [open |-> LineOpen, close |-> << >>],
      [open |-> HashOpen, close |-> << >>],
      [open |-> SqlOpen, close |-> << >>] }

\* the whitespace between delimiter and content: none, one space
Gaps == { << >>, << " " >> }

\* a comment of style s with the content q
Commented(s, gap, content) ==
    s.open \o gap \o content
        \o (IF s.close = << >> THEN << >> ELSE gap \o s.close)

\* the detector's result r for the comment: the delimiters of style s
\* around a COMMENT placeholder, and the reversal gives the comment back
RoundTrips(s, gap, r) ==
    /\ r.write
    /\ \E n \in 1..(Len(r.map) + 1) :
           r.out = Commented(s, << " " >>, Placeholder(COMMENT, n))
    /\ ReverseAll(r.out, r.map) = Commented(s, gap, << "q" >>)

\* C20: comment round trip by style. The comment detector rewrites a
\* comment of each of the seven styles as the delimiters of that style
\* around a COMMENT placeholder, and the full reversal then gives back the
\* comment as it was, with its delimiters and the whitespace between
\* delimiter and content.
C20_CommentRoundTrip ==
    \A s \in Styles, gap \in Gaps :
        RoundTrips(s, gap,
                   remove_comments(Commented(s, gap, << "q" >>), mappings, << >>))

(***************************************************************************)
(* Properties of the GUID detector.                                        *)
(***************************************************************************)
\* the GUID of the loaded text and a second one
Canonical == SubSeq(GuidText, 3, Len(GuidText))
OtherGuid == << "4" >> \o Tail(Canonical)

\* texts with GUIDs: bare, brace-wrapped, two distinct ones with a repeat,
\* one followed by the closing brace of an enclosing block, one preceded by
\* an opening brace alone
GuidTexts ==
    { Canonical,
      << "{" >> \o Canonical \o << "}" >>,
      Canonical \o << " " >> \o OtherGuid \o << " " >> \o Canonical,
      << "{", "a", ":" >> \o Canonical \o << "}" >>,
      << "$", "{" >> \o Canonical }

\* the GUID whose groups start at b is wrapped in braces
BraceWrapped(t, b) ==
    b > 1 /\ t[b - 1] = "{" /\ b + 36 <= Len(t) /\ t[b + 36] = "}"

\* the GUID at b, with its braces when it is wrapped in braces
GuidLiteral(t, b) ==
    IF BraceWrapped(t, b) THEN Slice(t, b - 1, b + 36) ELSE Slice(t, b, b + 35)

\* the GUID literals of the text from position b on, in the order the
\* detector registers them: from the last one to the first
RECURSIVE GuidLiterals(_, _)
GuidLiterals(t, b) ==
    IF b > Len(t) THEN << >>
    ELSE IF GuidBodyAt(t, b) THEN GuidLiterals(t, b + 36) \o << GuidLiteral(t, b) >>
    ELSE GuidLiterals(t, b + 1)

\* the distinct literals that are not in table m and come in the sequence
\* before the first occurrence of the literal at position k
NewBefore(lits, k, m) ==
    { lits[j] : j \in { i \in 1..(k - 1) :
                            /\ ~MapHas(m, lits[i])
                            /\ \A h \in 1..i : lits[h] # lits[k] } }

\* the text with every GUID literal from position b on replaced by the
\* placeholder table m has for it
RECURSIVE GuidsReplaced(_, _, _)
GuidsReplaced(t, b, m) ==
    IF b > Len(t) THEN << >>
    ELSE IF GuidBodyAt(t, b)
    THEN MapGet(m, GuidLiteral(t, b))
             \o GuidsReplaced(t, b + 36 + (IF BraceWrapped(t, b) THEN 1 ELSE 0), m)
    ELSE IF b + 1 <= Len(t) /\ GuidBodyAt(t, b + 1) /\ BraceWrapped(t, b + 1)
    THEN GuidsReplaced(t, b + 1, m)
    ELSE << t[b] >> \o GuidsReplaced(t, b + 1, m)

\* the detector's result r for the text t on table m: every GUID literal is
\* an original of the table, a literal that was not in m has the next GUID
\* number after those of m and of the literals registered before it, and
\* the text has the placeholders in place of the literals
GuidsRegistered(t, m, r) ==
    LET lits == GuidLiterals(t, 1)
    IN  /\ \A k \in 1..Len(lits) : MapHas(r.map, lits[k])
        /\ \A k \in 1..Len(lits) :
               ~MapHas(m, lits[k]) =>
                   MapGet(r.map, lits[k])
                       = Placeholder(GUID, NextNum(m, GUID)
                                             + Cardinality(NewBefore(lits, k, m)))
        /\ r.write /\ r.out = GuidsReplaced(t, 1, r.map)

\* C21: GUID detection. Every canonical 8-4-4-4-12 GUID of the text, with
\* its braces when it is wrapped in braces, is registered as one original
\* under category GUID and replaced by its placeholder; on a table without
\* GUID entry the first one registered gets GUID001 and each further
\* distinct one the next number.
C21_GuidsRegistered ==
    \A t \in GuidTexts :
        GuidsRegistered(t, mappings, obfuscate_guids(t, mappings, << >>))

(***************************************************************************)
(* Storage that fails. save_mappings opens the mappings file and dumps the *)
(* table with no handler around it, so a failure of the storage raises     *)
(* out of the operation that called it: a handler of the main thread ends  *)
(* at the call (Tk reports the exception and the main loop goes on), a     *)
(* do_obfuscation thread ends at the call.                                 *)
(***************************************************************************)
\* undo when save_mappings raises: the snapshot is popped and the table
\* restored, the text area is not reached
undo_unsaved ==
    /\ ~destroyed
    /\ budget.ops > 0
    /\ Spend
    /\ undo_stack # << >>
    /\ mappings' = Popped(undo_stack).mappings
    /\ undo_stack' = Slice(undo_stack, 1, Len(undo_stack) - 1)
    /\ last' = Step("undo_unsaved")
    /\ UNCHANGED << text_area, current_obfuscation_level, is_obfuscating,
                    clear_button_state, threads, after, clipboard, destroyed >>

\* obfuscate_word when save_mappings raises: the state is saved and the
\* word registered, the text area is not reached
obfuscate_word_unsaved(p) ==
    /\ ~destroyed
    /\ budget.ops > 0
    /\ Spend
    /\ get_word_at_click(text_area, p) # << >>
    /\ ~IsObfuscatedWord(mappings, get_word_at_click(text_area, p))
    /\ \E category \in GenericCategories :
         mappings' = obfuscate_word(text_area, mappings,
                                    get_word_at_click(text_area, p),
                                    category).mappings
    /\ undo_stack' = save_state(undo_stack, text_area, mappings)
    /\ last' = Step("obfuscate_word_unsaved")
    /\ UNCHANGED << text_area, current_obfuscation_level, is_obfuscating,
                    clear_button_state, threads, after, clipboard, destroyed >>

\* the second click on the CLEAR button when save_mappings raises in
\* clear_mappings: the state is saved and the table emptied; the text area,
\* the level, the button state and its timer are not reached
clear_unsaved ==
    /\ ~destroyed
    /\ budget.ops > 0
    /\ Spend
    /\ clear_button_state = 1
    /\ undo_stack' = save_state(undo_stack, text_area, mappings)
    /\ mappings' = << >>
    /\ last' = Step("clear_unsaved")
    /\ UNCHANGED << text_area, current_obfuscation_level, is_obfuscating,
                    clear_button_state, threads, after, clipboard, destroyed >>

\* an action of the thread when save_mappings raises: the action has
\* registered on the table, the text area is not written, the thread ends
\* and self.root.after(0, self.on_obfuscation_complete) is not reached;
\* _action_remove_empty_lines does not save
WriteUnsaved(i) ==
    /\ ~destroyed
    /\ threads[i].pc = "write"
    /\ Head(threads[i].actions) # "remove_empty_lines"
    /\ threads' = WithoutThread(i)
    /\ last' = Step("thread_unsaved")
    /\ UNCHANGED << text_area, mappings, current_obfuscation_level,
                    is_obfuscating, undo_stack, clear_button_state, after,
                    clipboard, destroyed, budget >>

NextStorage ==
    \/ NextHandlers
    \/ undo_unsaved
    \/ \E p \in 1..Len(text_area) : obfuscate_word_unsaved(p)
    \/ clear_unsaved
    \/ \E i \in 1..Len(threads) : WriteUnsaved(i)

SpecStorage == InitHandlers /\ [][NextStorage]_vars

\* the word of the text that this step registered
Clicked(p) == get_word_at_click(text_area, p)

\* C22: a failure of the storage is not fatal. When writing the table to
\* the storage fails during an undo, a single-word obfuscation, a clear or
\* an action of an advance, the text area and the table end as they do
\* when the write succeeds, and the advance still schedules its completion.
C22_SaveFailureHarmless ==
    [][/\ last'.op = "undo_unsaved" =>
            Outcome(text_area', mappings') = Popped(undo_stack)
       /\ last'.op = "obfuscate_word_unsaved" =>
            \E p \in 1..Len(text_area) :
                /\ MapHas(mappings', Clicked(p))
                /\ text_area' = Replace(text_area, Clicked(p),
                                        MapGet(mappings', Clicked(p)))
       /\ last'.op = "clear_unsaved" =>
            Outcome(text_area', mappings')
                = Outcome(ReverseAll(text_area, mappings), << >>)
       /\ last'.op = "thread_unsaved" =>
            \E i \in 1..Len(threads) :
                /\ threads[i].pc = "write"
                /\ text_area' = threads[i].text_content
                /\ Len(threads[i].actions) = 1 =>
                       after'.complete = after.complete + 1]_vars

(***************************************************************************)
(* Progress of an advance. The operating system schedules the thread of    *)
(* do_obfuscation as long as it has a step to take, and the main loop of   *)
(* Tk runs a callback that root.after has scheduled.                       *)
(***************************************************************************)
LiveAdvances == 1
LiveOps == 2

LiveText == << "x" >>

InitLive == Start(LiveText, << >>, [advance |-> LiveAdvances, ops |-> LiveOps])

SpecLive ==
    /\ InitLive
    /\ [][NextHandlers]_vars
    /\ WF_vars(Worker)
    /\ WF_vars(on_obfuscation_complete)

\* C23: advance liveness. Every accepted advance completes: once
\* is_obfuscating is set it becomes false again (on_obfuscation_complete
\* runs and enables the button), whatever handlers of the main thread run
\* between the steps of the thread, unless the window is closed.
C23_AdvanceCompletes == is_obfuscating ~> (~is_obfuscating \/ destroyed)

(***************************************************************************)
(* Properties of the comment detector outside the spans it collects.       *)
(***************************************************************************)
\* texts with comments: a line comment after a block comment, a block
\* comment inside a line comment, a line comment inside a hash comment, a
\* block comment that opens inside another
SpanTexts ==
    { <<"/", "*", "a", "*", "/", " ", "/", "/", "b">>,
      <<"x", " ", "/", "/", "a", "/", "*", "b", "*", "/", "\n", "y">>,
      <<"q", "#", "a", "/", "/", "b", "\n", "z">>,
      <<"/", "*", "<", "!", "-", "-", "*", "/", "-", "-", ">">> }

\* no two of the spans share a character
Disjoint(spans) ==
    \A j, k \in 1..Len(spans) :
        j # k => spans[j].e < spans[k].s \/ spans[k].e < spans[j].s

\* the pieces of t between the spans, from position i on: each maximal run
\* of characters that lie in none of the spans
RECURSIVE Pieces(_, _, _, _)
Pieces(t, spans, i, piece) ==
    IF i > Len(t) THEN << piece >>
    ELSE IF Covered(spans, i)
    THEN (IF i > 1 /\ Covered(spans, i - 1) THEN << >> ELSE << piece >>)
             \o Pieces(t, spans, i + 1, << >>)
    ELSE Pieces(t, spans, i + 1, Append(piece, t[i]))

\* the pieces from the k-th on occur in out from position i on in their
\* order, one replacement between two of them, the last one at the end
RECURSIVE InOrder(_, _, _, _)
InOrder(out, i, pieces, k) ==
    IF k = Len(pieces) THEN i <= Len(out) + 1 - Len(pieces[k]) /\ EndsWith(out, pieces[k])
    ELSE \E p \in i..(Len(out) + 1) :
            /\ StartsWithAt(out, p, pieces[k]) \/ pieces[k] = << >>
            /\ InOrder(out, p + Len(pieces[k]) + 1, pieces, k + 1)

\* the detector's result r on the text t: the text outside the spans is
\* where it was, with one replacement for each span
OutsideKept(t, spans, r) ==
    LET pieces == Pieces(t, spans, 1, << >>)
        out == IF r.write THEN r.out ELSE t
    IN  /\ StartsWith(out, pieces[1])
        /\ InOrder(out, Len(pieces[1]) + 1, pieces, IF Len(pieces) > 1 THEN 2 ELSE 1)

\* C24: the comment detector is pure outside its spans. The spans it
\* collects do not overlap one another, and after the pass every character
\* outside them is unchanged and in the same order.
C24_CommentSpansDisjoint ==
    \A t \in SpanTexts \cup { text_area } :
        /\ Disjoint(CollectComments(t))
        /\ OutsideKept(t, CollectComments(t), remove_comments(t, mappings, << >>))

(***************************************************************************)
(* Properties of the path detector.                                        *)
(***************************************************************************)
\* texts with paths: two paths apart, a relative path inside a quoted
\* path, a relative path inside a URL
OverlapTexts ==
    { <<"\"", "a", "/", "b", "\"", " ", ".", "/", "c">>,
      <<"\"", "a", "/", ".", ".", "/", "b", "\"">>,
      <<"h", "t", "t", "p", ":", "/", "/", "h", "/", ".", "/", "a">> }

\* unique_paths: what the deduplication keeps of the scans of t on table m
unique_paths(t, m) == UniqueSpans(CollectPaths(t, m, 1), 1, << >>)

\* C25: no overlap after deduplication. No two of the matches the path
\* detector keeps for replacement share a character of the text, whichever
\* patterns found them, so each replacement rewrites its own span only.
C25_PathSpansDisjoint ==
    \A t \in OverlapTexts \cup { text_area } :
        Disjoint(unique_paths(t, mappings))

(***************************************************************************)
(* Properties of the function-body detector.                               *)
(***************************************************************************)
\* texts whose only brace block belongs to a control-flow construct or to a
\* type declaration: the keyword first on its line, a declaration with a
\* parameter list, a statement before the keyword on the line, a condition
\* that spans two lines
ControlTexts ==
    { <<"i", "f", "(", "a", ")", "{", "x", "}">>,
      <<"c", "l", "a", "s", "s", " ", "A", "(", "b", ")", "{", "x", "}">>,
      <<"f", "(", "a", ")", ";", "w", "h", "i", "l", "e", "(", "b", ")", "{", "x", "}">>,
      <<"i", "f", "(", "a", "\n", "&", "&", "b", ")", "{", "x", "}">> }

\* the detector's result r on the text t and the table m: nothing replaced,
\* nothing registered
BlocksKept(t, m, r) == r.out = t /\ r.map = m

\* C26: control flow and type declarations are excluded. The function-body
\* detector does not replace the brace block of an if, else, while, for,
\* foreach, switch, catch, finally, lock, using or try, nor that of a
\* class, interface, struct, namespace, enum or record, whatever stands
\* before the keyword on its line and also when the parenthesized
\* condition spans several lines.
C26_ControlBlocksKept ==
    \A t \in ControlTexts :
        BlocksKept(t, mappings,
                   remove_function_bodies(t, mappings, << >>,
                                          NextNum(mappings, BODY)))

(***************************************************************************)
(* Braces that are not balanced: a text with a function whose opening      *)
(* brace has no closing brace, and a complete function after it, loaded on *)
(* an empty table and taken through the levels.                            *)
(***************************************************************************)
BodyAdvances == 4
BodyOps == 1

UnbalancedOpen == <<"g", "e", "t", "(", ")", "{">>
LaterSignature == <<"s", "e", "t", "(", ")">>
UnbalancedText == UnbalancedOpen \o LaterSignature \o <<"{", "x", "}">>

InitBodies ==
    Start(UnbalancedText, << >>, [advance |-> BodyAdvances, ops |-> BodyOps])

SpecBodies == InitBodies /\ [][NextPipeline]_vars

\* what the detector writes for a body on table m: the placeholder of the
\* body if it has one, else the next BODY placeholder
BodyPlaceholder(m, body) ==
    IF MapHas(m, body) THEN MapGet(m, body)
    ELSE Placeholder(BODY, NextNum(m, BODY))

\* the block the detector writes for a body
BodyBlock(m, body) == << "{", " " >> \o BodyPlaceholder(m, body) \o << " ", "}" >>

\* the table m with the body registered if it was not
WithBody(m, body) ==
    IF MapHas(m, body) THEN m ELSE MapPut(m, body, BodyPlaceholder(m, body))

\* the detector's result r on table m for the texts with an opening brace
\* that has no closing brace: alone, with a closing brace inside a quoted
\* string only, and followed by a complete function with the given body
UnbalancedKept(m, r1, r2, r3, body) ==
    /\ r1.out = UnbalancedOpen \o body /\ r1.map = m
    /\ r2.out = UnbalancedOpen \o << "'", "}", "'" >> /\ r2.map = m
    /\ r3.out = UnbalancedOpen \o LaterSignature \o BodyBlock(m, body)
    /\ r3.map = WithBody(m, body)

\* the detector on text t and table m
Bodies(t, m) == remove_function_bodies(t, m, << >>, NextNum(m, BODY))

\* C27: braces that are not balanced. An opening brace after a function
\* signature that has no closing brace (a brace inside a quoted string
\* does not count) is left as it is and nothing is registered for it; the
\* scan goes on after it, so that a complete function body further on is
\* still replaced, and the scan ends. In every state the opening brace of
\* the loaded text is where it was.
C27_UnbalancedKept ==
    /\ UnbalancedKept(mappings,
                      Bodies(UnbalancedOpen \o << "x" >>, mappings),
                      Bodies(UnbalancedOpen \o << "'", "}", "'" >>, mappings),
                      Bodies(UnbalancedText, mappings),
                      << "x" >>)
    /\ StartsWith(text_area, UnbalancedOpen \o LaterSignature \o << "{" >>)

\* the last level has run on the loaded text: the body of the complete
\* function is a BODY placeholder, the opening brace before it is in place
C27_LaterBodyReplaced ==
    /\ current_obfuscation_level = max_level
    /\ Quiescent
    /\ \E n \in 1..Len(mappings) :
           text_area = UnbalancedOpen \o LaterSignature
                           \o << "{", " " >> \o Placeholder(BODY, n) \o << " ", "}" >>

(***************************************************************************)
(* Words that are part of a placeholder: a text of an identifier and a     *)
(* word that is the tag of a category, loaded on an empty table; the user  *)
(* clicks words, loads the clipboard again and undoes.                     *)
(***************************************************************************)
WordOps == 3

WordText == <<"x", " ", "I", "D">>

InitWords == Start(WordText, << >>, [advance |-> 0, ops |-> WordOps])

SpecWords == InitWords /\ [][NextClicks]_vars

\* C28: the obfuscation of a single word leaves the placeholders alone.
\* After a click on a word that is no placeholder of the table, every
\* placeholder of an entry the table had before the click is in the text
\* as often as it was before the click.
C28_PlaceholdersIntact ==
    [][last'.op = "obfuscate_word" =>
         \A k \in 1..Len(mappings) :
             Count(Tokens(text_area', 1), mappings[k].obfuscated)
                 = Count(Tokens(text_area, 1), mappings[k].obfuscated)]_vars

(***************************************************************************)
(* The advance after the last level.                                       *)
(***************************************************************************)
\* C29: after all levels are done. When the current level is the highest
\* level, an accepted click on the advance button sets the level to 0 and
\* performs no action: no thread is started, and the text and the table
\* stay as they are.
C29_ResetAfterLastLevel ==
    [][(last'.op = "advance" /\ current_obfuscation_level = max_level) =>
         /\ current_obfuscation_level' = 0
         /\ threads' = threads
         /\ UNCHANGED << text_area, mappings >>]_vars

(***************************************************************************)
(* The button CLEAR, CONFIRM?, CLOSE and its timers. The timers have the   *)
(* same delay and none is cancelled, so they run in the order in which     *)
(* they were armed: the one that runs is the oldest one pending, and every *)
(* click since it was armed has armed another one.                         *)
(***************************************************************************)
\* C30: the three states of the clear button. The table is cleared only by
\* a click made in the CONFIRM state and the window is closed only by a
\* click made in the CLOSE state; a reset timer armed by a click puts the
\* button back to CLEAR only if the button was not clicked again after the
\* timer was armed, that is, only if no younger timer is pending.
C30_ClearButton ==
    [][/\ last'.op = "clear_mappings" => clear_button_state = 1
       /\ (destroyed' /\ ~destroyed) => clear_button_state = 2
       /\ last'.op = "reset_clear_button" => after.reset = 1]_vars

=============================================================================
